---- MODULE Spec2Model ----
(***************************************************************************)
(* A model of pennsieve-dataset-mgmt-tools:                                *)
(*   - the package path resolver (get_package_path, three copies),         *)
(*   - the duplicate reconciliation protocol (cleanup_duplicates),         *)
(*   - delete_by_pattern and delete_by_path, and dry-run mode,             *)
(*   - the duplicate-name functions,                                       *)
(*   - the BIDS sidecar classes (construction, add_row, validate, save).   *)
(* Strings the code takes apart or puts together (file names, paths) are   *)
(* sequences of one-character strings, so that joining and splitting are   *)
(* computed and not assumed.                                               *)
(***************************************************************************)
EXTENDS Naturals, Integers, Sequences, FiniteSets, TLC

VARIABLES
    \* ---- get_package_path (one call, one loop iteration per step)
    all_packages,   \* the flat package list handed to the call
    package,        \* the package whose path is asked for
    pkg_lookup,     \* id -> package index built at the start of the call
    path_parts,     \* names collected so far, outermost first
    current,        \* the package the walk stands on
    steps,          \* parent lookups done so far
    ppc,            \* "start" | "walking" | "returned" | "idle"
    path_result,    \* the returned string
    mixin_path,     \* what PackageOperationsMixin.get_package_path gives
    metadata_path,  \* what MetadataManager.get_package_path gives
    populator_path, \* what ModelPopulator.get_package_path gives
    \* ---- cleanup_duplicates (one call)
    packages,       \* the package listing the call works from
    file_paths,     \* the candidate paths
    dataset_name,   \* name of the dataset
    dataset_found,  \* whether find_dataset_by_name finds it
    dry_run,        \* DatasetManagerCore.dry_run
    pkg_by_location,\* (path, name) -> package
    idx,            \* index of the candidate being processed
    original_pkg,   \* lookup results of the current candidate
    duplicate_pkg,
    filename,       \* file name of the current candidate
    success_count,
    skip_count,
    cpc,            \* position in cleanup_duplicates
    cleanup_result, \* the returned (success_count, skip_count)
    oplog,          \* delete_package / rename_package calls, in order
    remote,         \* the remote dataset: nodeId -> [name, state]
    operation,      \* "cleanup_duplicates" | "delete_by_path" |
                    \* "delete_by_pattern": the method called
    pattern,        \* the glob pattern of delete_by_pattern
    pkg_by_path,    \* delete_by_path: full path -> package
    matches,        \* delete_by_pattern: the matching packages, in order
    \* ---- one sidecar instance (construct, add_row*, save)
    sidecar_class,  \* which sidecar class is instantiated
    in_fields,      \* the fields dict handed to a JSON constructor
    in_rows,        \* the rows list handed to a TSV constructor
    in_kwargs,      \* the constructor's keyword options
    added_rows,     \* the rows handed to add_row so far, in order
    self_data,      \* instance attribute data
    self_rows,      \* instance attribute rows (TSV classes)
    self_paths,     \* instance attribute paths
    self_filename,  \* instance attribute filename
    save_kwargs,    \* the keyword arguments of the save call
    save_outcome,   \* how the save call ended and what it returned
    written,        \* the file the save call left on disk
    logged,         \* log records of the save call, in order
    validate_call,  \* the validate / run_validation call made
    validate_outcome, \* how that call ended: result or exception, messages
    class_attrs,    \* the class attributes of sidecar_class, as every
                    \* instance of the class sees them
    spc,            \* "new" | "built" | "saved" | "validated" |
                    \* "revalidated" | "idle"
    \* ---- the duplicate-name functions applied to one file name
    name_in,        \* the file name
    name_dup,       \* _get_duplicate_name(name_in)
    name_back,      \* _get_original_name of name_dup, or of name_in
    npc             \* "new" | "duplicated" | "restored" | "stripped" | "idle"

pathVars == <<all_packages, package, pkg_lookup, path_parts, current, steps,
              ppc, path_result, mixin_path, metadata_path, populator_path>>
cleanupVars == <<packages, file_paths, dataset_name, dataset_found, dry_run,
                 pkg_by_location, idx, original_pkg, duplicate_pkg, filename,
                 success_count, skip_count, cpc, cleanup_result, oplog, remote,
                 operation, pattern, pkg_by_path, matches>>
sidecarVars == <<sidecar_class, in_fields, in_rows, in_kwargs, added_rows,
                 self_data, self_rows, self_paths, self_filename, save_kwargs,
                 save_outcome, written, logged, validate_call,
                 validate_outcome, class_attrs, spc>>
nameVars == <<name_in, name_dup, name_back, npc>>
vars == <<pathVars, cleanupVars, sidecarVars, nameVars>>

(***************************************************************************)
(* Bounds                                                                  *)
(***************************************************************************)
MaxPkgs == 3        \* packages in the list handed to get_package_path

(***************************************************************************)
(* Values                                                                  *)
(***************************************************************************)
\* A falsy id / parentId (None, absent, ""): "if pkg_id", "if not parent_id".
NoId == 0
\* The absent package (dict.get without a hit), and the empty string.
NoPkg == [id |-> NoId, nodeId |-> 0, name |-> <<>>, parentId |-> NoId,
          state |-> "NONE"]
EmptyStr == <<>>

\* "/".join(parts) over character sequences.
RECURSIVE JoinSlash(_)
JoinSlash(parts) ==
    IF parts = <<>> THEN EmptyStr
    ELSE IF Len(parts) = 1 THEN parts[1]
    ELSE parts[1] \o <<"/">> \o JoinSlash(Tail(parts))

\* The largest element of a non-empty set of naturals.
MaxOf(S) == CHOOSE m \in S : \A n \in S : n <= m

(***************************************************************************)
(* get_package_path: packages.py 79-111                                    *)
(***************************************************************************)
\* pkg_lookup: every package with a truthy id, a later one replacing an
\* earlier one with the same id.
BuildLookup(pkgs) ==
    [i \in {pkgs[k].id : k \in DOMAIN pkgs} \ {NoId} |->
        pkgs[MaxOf({k \in DOMAIN pkgs : pkgs[k].id = i})]]

\* A variant without the "not parent_id" test.
WalkStops_LookupOnly(cur, lookup) == cur.parentId \notin DOMAIN lookup

\* The loop's exit test: "not parent_id or parent_id not in pkg_lookup".
WalkStops(cur, lookup) ==
    cur.parentId = NoId \/ cur.parentId \notin DOMAIN lookup

\* A variant that appends the name at the end (append for insert(0, ...)).
InsertName_Appends(parts, parent) ==
    IF parent.name # EmptyStr THEN parts \o <<parent.name>> ELSE parts

\* path_parts after one iteration that found parent: insert(0, name) when the
\* name is truthy.
InsertName(parts, parent) ==
    IF parent.name # EmptyStr THEN <<parent.name>> \o parts ELSE parts

\* The whole walk as a function, for the callers.  A walk that makes more
\* parent lookups than the index has entries stands on a package it has
\* already visited, and the loop, being deterministic, never ends: "diverges".
RECURSIVE WalkFrom(_, _, _, _)
WalkFrom(cur, lookup, parts, fuel) ==
    IF WalkStops(cur, lookup) THEN [diverges |-> FALSE, path |-> JoinSlash(parts)]
    ELSE IF fuel = 0 THEN [diverges |-> TRUE, path |-> EmptyStr]
    ELSE WalkFrom(lookup[cur.parentId], lookup,
                  InsertName(parts, lookup[cur.parentId]), fuel - 1)

get_package_path(pkg, pkgs) ==
    LET lookup == BuildLookup(pkgs)
    IN  WalkFrom(pkg, lookup, <<>>, Cardinality(DOMAIN lookup))

\* metadata_manager.py 253-281: the same index and the same walk.
MetadataManager_get_package_path(pkg, pkgs) ==
    LET lookup == BuildLookup(pkgs)
    IN  WalkFrom(pkg, lookup, <<>>, Cardinality(DOMAIN lookup))

\* model_populator.py 235-238: the index is a dict comprehension over every
\* package, those with a falsy id included (under the key of that id).
BuildLookupAll(pkgs) ==
    [i \in {pkgs[k].id : k \in DOMAIN pkgs} |->
        pkgs[MaxOf({k \in DOMAIN pkgs : pkgs[k].id = i})]]

\* model_populator.py 233-256: that index, and the same walk.
ModelPopulator_get_package_path(pkg, pkgs) ==
    LET lookup == BuildLookupAll(pkgs)
    IN  WalkFrom(pkg, lookup, <<>>, Cardinality(DOMAIN lookup))

\* No call of a resolver made yet; and what a call gave: the string
\* returned, or diverges for a call that does not return.
NoAnswer == [called |-> FALSE, diverges |-> FALSE, path |-> EmptyStr]
Answer(r) == [called |-> TRUE, diverges |-> r.diverges, path |-> r.path]

\* ---- the call, one loop iteration per step ------------------------------
\* Names the packages of a list carry: the package in place i has the name
\* SlotName(i) or no name.
SlotName(i) ==
    CASE i = 1 -> <<"f">>
      [] i = 2 -> <<"s", "u", "b", "0", "1">>
      [] i = 3 -> <<"i", "e", "e", "g">>
      [] OTHER -> <<"x">>

\* The package lists get_package_path is called with, the package asked for
\* standing first: the package in place i has id i (the last one: or no id), any parentId (none, a listed id, or MaxPkgs + 1, an id
\* the list does not hold), and its name or the empty name.
PathPackage(i) ==
    {[id |-> d, nodeId |-> i, name |-> n, parentId |-> p, state |-> "READY"] :
        d \in (IF i = MaxPkgs THEN {NoId, i} ELSE {i}),
        n \in {EmptyStr, SlotName(i)}, p \in 0..(MaxPkgs + 1)}

RECURSIVE PathListingsOf(_)
PathListingsOf(n) ==
    IF n = 0 THEN {<<>>}
    ELSE {Append(l, p) : l \in PathListingsOf(n - 1), p \in PathPackage(n)}

PathListings == PathListingsOf(MaxPkgs)

\* The steps counter stops here: a walk on a cyclic list never ends.
WalkCap == MaxPkgs + 2

CleanupIdle ==
    /\ packages = <<>> /\ file_paths = <<>> /\ dataset_name = EmptyStr
    /\ dataset_found = FALSE /\ dry_run = FALSE
    /\ pkg_by_location = <<>> /\ idx = 0
    /\ original_pkg = NoPkg /\ duplicate_pkg = NoPkg /\ filename = EmptyStr
    /\ success_count = 0 /\ skip_count = 0 /\ cpc = "idle"
    /\ cleanup_result = <<0, 0>> /\ oplog = <<>> /\ remote = <<>>
    /\ operation = "none" /\ pattern = <<>> /\ pkg_by_path = <<>>
    /\ matches = <<>>

NamesIdle ==
    /\ name_in = <<>> /\ name_dup = <<>> /\ name_back = <<>> /\ npc = "idle"

PathIdle ==
    /\ all_packages = <<>> /\ package = NoPkg /\ pkg_lookup = <<>>
    /\ path_parts = <<>> /\ current = NoPkg /\ steps = 0 /\ ppc = "idle"
    /\ path_result = EmptyStr
    /\ mixin_path = NoAnswer /\ metadata_path = NoAnswer
    /\ populator_path = NoAnswer

\* A Python dict as data: kind "dict" with its key -> value map; a Python
\* list of row dicts: kind "list" with its rows and the key order of the
\* first row.
DictData(m) == [kind |-> "dict", map |-> m, rows |-> <<>>, keys |-> <<>>]
ListData(r, first_keys) ==
    [kind |-> "list", map |-> <<>>, rows |-> r, keys |-> first_keys]

NoFile == [exists |-> FALSE, format |-> "none", header |-> <<>>,
           lines |-> <<>>, content |-> <<>>]
NoOutcome == [kind |-> "none", exc |-> "none", path |-> <<>>]
NoSaveArgs == [validate |-> FALSE, has_data |-> FALSE, data |-> DictData(<<>>),
               has_output_dir |-> FALSE, output_dir |-> ""]

NoClass == [REQUIRED_FIELDS |-> {}, RECOMMENDED_FIELDS |-> {},
            OPTIONAL_FIELDS |-> {}, DEFAULTS |-> <<>>, COLUMN_ORDER |-> <<>>,
            filename |-> ""]

NoCall == [op |-> "none", strict |-> FALSE, has_data |-> FALSE,
           data |-> DictData(<<>>)]
NoResult == [kind |-> "none", exc |-> "none", ok |-> FALSE, errors |-> <<>>,
             warnings |-> <<>>, infos |-> <<>>, has_columns |-> FALSE,
             columns |-> {}]

SidecarIdle ==
    /\ sidecar_class = "none" /\ in_fields = <<>> /\ in_rows = <<>>
    /\ in_kwargs = <<>> /\ added_rows = <<>>
    /\ self_data = <<>> /\ self_rows = <<>> /\ self_paths = <<>>
    /\ self_filename = "" /\ save_kwargs = NoSaveArgs
    /\ save_outcome = NoOutcome /\ written = NoFile /\ logged = <<>>
    /\ validate_call = NoCall /\ validate_outcome = NoResult
    /\ class_attrs = NoClass
    /\ spc = "idle"

PathInit ==
    /\ all_packages \in PathListings
    /\ package = all_packages[1]
    /\ pkg_lookup = <<>>
    /\ path_parts = <<>>
    /\ current = NoPkg
    /\ steps = 0
    /\ ppc = "start"
    /\ path_result = EmptyStr
    /\ mixin_path = NoAnswer /\ metadata_path = NoAnswer
    /\ populator_path = NoAnswer
    /\ CleanupIdle
    /\ SidecarIdle
    /\ NamesIdle

\* packages.py 85-93: build the index, start at the package.
PathStart ==
    /\ ppc = "start"
    /\ pkg_lookup' = BuildLookup(all_packages)
    /\ path_parts' = <<>>
    /\ current' = package
    /\ ppc' = "walking"
    /\ UNCHANGED <<all_packages, package, steps, path_result, mixin_path,
                   metadata_path, populator_path, cleanupVars, sidecarVars,
                   nameVars>>

\* packages.py 95-109: one iteration that finds the parent in the index.
PathStep ==
    /\ ppc = "walking"
    /\ ~WalkStops(current, pkg_lookup)
    /\ steps < WalkCap
    /\ path_parts' = InsertName(path_parts, pkg_lookup[current.parentId])
    /\ current' = pkg_lookup[current.parentId]
    /\ steps' = steps + 1
    /\ UNCHANGED <<all_packages, package, pkg_lookup, ppc, path_result,
                   mixin_path, metadata_path, populator_path, cleanupVars,
                   sidecarVars, nameVars>>

\* packages.py 99-100, 111: the iteration that breaks, and the return.
PathReturn ==
    /\ ppc = "walking"
    /\ WalkStops(current, pkg_lookup)
    /\ path_result' = JoinSlash(path_parts)
    /\ ppc' = "returned"
    /\ UNCHANGED <<all_packages, package, pkg_lookup, path_parts, current, steps,
                   mixin_path, metadata_path, populator_path, cleanupVars,
                   sidecarVars, nameVars>>

PathNext == PathStart \/ PathStep \/ PathReturn

SpecPath == PathInit /\ [][PathNext]_vars

\* ---- properties of get_package_path --------------------------------------
\* The id reached from id i by n parent links through the index (NoId once
\* the links leave the index).
RECURSIVE Up(_, _, _)
Up(lookup, i, n) ==
    IF n = 0 THEN i
    ELSE LET j == Up(lookup, i, n - 1)
         IN  IF j \in DOMAIN lookup /\ lookup[j].parentId \in DOMAIN lookup
             THEN lookup[j].parentId ELSE NoId

\* No package of the list is its own ancestor.
Acyclic(pkgs) ==
    LET lookup == BuildLookup(pkgs)
    IN  \A i \in DOMAIN lookup :
            \A n \in 1..Cardinality(DOMAIN lookup) : Up(lookup, i, n) # i

\* The names of the ancestors of cur, outermost first (acyclic lists only).
RECURSIVE AncestorNames(_, _)
AncestorNames(cur, lookup) ==
    IF cur.parentId = NoId \/ cur.parentId \notin DOMAIN lookup THEN <<>>
    ELSE AncestorNames(lookup[cur.parentId], lookup)
            \o <<lookup[cur.parentId].name>>

NonEmptyName(n) == n # EmptyStr

\* C5: get_package_path ends within |packages| parent lookups on every
\* package list, one with a parentId cycle included.
C5_EndsWithinListLength == steps <= Len(all_packages)

\* C6 as stated: on an acyclic list the result is the '/'-join of the names of
\* all ancestors, outermost first, the package's own name left out.
C6_JoinOfAllAncestorNames ==
    (ppc = "returned" /\ Acyclic(all_packages)) =>
        path_result = JoinSlash(AncestorNames(package, BuildLookup(all_packages)))

\* C6 amended: on an acyclic list the result is the '/'-join of the non-empty
\* names of the ancestors, outermost first, the package's own name left out;
\* it is the empty string when the package has no resolvable parent.
C6_JoinOfNonEmptyAncestorNames ==
    (ppc = "returned" /\ Acyclic(all_packages)) =>
        /\ path_result =
             JoinSlash(SelectSeq(AncestorNames(package, BuildLookup(all_packages)),
                                 NonEmptyName))
        /\ (package.parentId = NoId \/ package.parentId \notin DOMAIN pkg_lookup)
              => path_result = EmptyStr

\* C6 witness: C under B ("sub01") under the root A ("ieeg") gives "ieeg/sub01".
C6_Witness ==
    /\ ppc = "returned"
    /\ Acyclic(all_packages)
    /\ steps = 2
    /\ path_result = <<"i", "e", "e", "g", "/", "s", "u", "b", "0", "1">>

(***************************************************************************)
(* The three get_package_path implementations on the same arguments:       *)
(* packages.py 79-111, metadata_manager.py 253-281, model_populator.py     *)
(* 233-256                                                                 *)
(***************************************************************************)
ResolversInit ==
    /\ all_packages \in PathListings
    /\ package = all_packages[1]
    /\ pkg_lookup = <<>>
    /\ path_parts = <<>>
    /\ current = NoPkg
    /\ steps = 0
    /\ ppc = "resolvers"
    /\ path_result = EmptyStr
    /\ mixin_path = NoAnswer /\ metadata_path = NoAnswer
    /\ populator_path = NoAnswer
    /\ CleanupIdle
    /\ SidecarIdle
    /\ NamesIdle

\* PackageOperationsMixin.get_package_path(package, all_packages)
ResolveMixin ==
    /\ ppc = "resolvers"
    /\ ~mixin_path.called
    /\ mixin_path' = Answer(get_package_path(package, all_packages))
    /\ UNCHANGED <<all_packages, package, pkg_lookup, path_parts, current,
                   steps, ppc, path_result, metadata_path, populator_path,
                   cleanupVars, sidecarVars, nameVars>>

\* MetadataManager.get_package_path(package, all_packages)
ResolveMetadata ==
    /\ ppc = "resolvers"
    /\ ~metadata_path.called
    /\ metadata_path' =
          Answer(MetadataManager_get_package_path(package, all_packages))
    /\ UNCHANGED <<all_packages, package, pkg_lookup, path_parts, current,
                   steps, ppc, path_result, mixin_path, populator_path,
                   cleanupVars, sidecarVars, nameVars>>

\* ModelPopulator.get_package_path(package, all_packages)
ResolvePopulator ==
    /\ ppc = "resolvers"
    /\ ~populator_path.called
    /\ populator_path' =
          Answer(ModelPopulator_get_package_path(package, all_packages))
    /\ UNCHANGED <<all_packages, package, pkg_lookup, path_parts, current,
                   steps, ppc, path_result, mixin_path, metadata_path,
                   cleanupVars, sidecarVars, nameVars>>

ResolversNext == ResolveMixin \/ ResolveMetadata \/ ResolvePopulator

SpecResolvers == ResolversInit /\ [][ResolversNext]_vars

\* The list holds a package without an id and a package without a name.
HasIdlessAndNameless ==
    /\ \E k \in DOMAIN all_packages : all_packages[k].id = NoId
    /\ \E k \in DOMAIN all_packages : all_packages[k].name = EmptyStr

\* C30: called with the same package and the same list, the three
\* get_package_path implementations give the same answer, the same string
\* when they return, also on a list that holds a package with a missing or
\* empty id or an empty name.
C30_ResolversAgree ==
    (mixin_path.called /\ metadata_path.called /\ populator_path.called) =>
        /\ metadata_path = mixin_path
        /\ populator_path = mixin_path

\* C30 witness: on a list with a package without an id (which only
\* ModelPopulator's index holds) and a package without a name, the three
\* have returned the same non-empty path for a package whose parent is
\* listed and has a falsy parentId.
C30_Witness ==
    /\ mixin_path.called /\ metadata_path.called /\ populator_path.called
    /\ HasIdlessAndNameless
    /\ NoId \in DOMAIN BuildLookupAll(all_packages)
    /\ NoId \notin DOMAIN BuildLookup(all_packages)
    /\ \E k \in DOMAIN all_packages :
          /\ all_packages[k].id = package.parentId
          /\ all_packages[k].id # NoId
          /\ all_packages[k].parentId = NoId
    /\ ~mixin_path.diverges
    /\ mixin_path.path # EmptyStr
    /\ populator_path.path = mixin_path.path

(***************************************************************************)
(* cleanup_duplicates: packages.py 312-446, with delete_package (113-138)  *)
(* and rename_package (140-166)                                            *)
(***************************************************************************)
MaxFiles == 2       \* file packages in the listing, beside the folder
MaxCands == 2       \* candidate paths handed to one cleanup_duplicates call

\* ---- strings --------------------------------------------------------------
\* The last index of character c in s, 0 when there is none (str.rfind + 1).
RFind(s, c) ==
    LET hits == {i \in DOMAIN s : s[i] = c}
    IN  IF hits = {} THEN 0 ELSE MaxOf(hits)

\* s.split(c)
RECURSIVE SplitOn(_, _)
SplitOn(s, c) ==
    LET hits == {i \in DOMAIN s : s[i] = c}
    IN  IF hits = {} THEN <<s>>
        ELSE LET i == CHOOSE h \in hits : \A g \in hits : h <= g
             IN  <<SubSeq(s, 1, i - 1)>> \o SplitOn(SubSeq(s, i + 1, Len(s)), c)

\* str.replace("{dataset}", dataset_name); the placeholder is one symbol of a
\* template.
RECURSIVE ReplaceDataset(_, _)
ReplaceDataset(template, name) ==
    IF template = <<>> THEN <<>>
    ELSE (IF Head(template) = "{dataset}" THEN name ELSE <<Head(template)>>)
            \o ReplaceDataset(Tail(template), name)

\* pathlib: the components of a path ("" and "." components dropped).
IsPathComponent(c) == c # EmptyStr /\ c # <<".">>
PathComponents(path) == SelectSeq(SplitOn(path, "/"), IsPathComponent)
IsAbsolute(path) == path # <<>> /\ path[1] = "/"

\* Path(path).name
PathName(path) ==
    LET parts == PathComponents(path)
    IN  IF parts = <<>> THEN EmptyStr ELSE parts[Len(parts)]

\* packages.py 394: str(p.parent) if p.parent != Path('.') else ''
ParentFolder(path) ==
    LET parts == PathComponents(path)
        front == IF parts = <<>> THEN <<>> ELSE SubSeq(parts, 1, Len(parts) - 1)
    IN  (IF IsAbsolute(path) THEN <<"/">> ELSE <<>>) \o JoinSlash(front)

\* Path(name).suffix and Path(name).stem: the suffix starts at the last dot,
\* unless that dot is the first or the last character.
SuffixStart(name) ==
    LET i == RFind(name, ".")
    IN  IF 1 < i /\ i < Len(name) THEN i ELSE 0
PathSuffix(name) ==
    IF SuffixStart(name) = 0 THEN EmptyStr
    ELSE SubSeq(name, SuffixStart(name), Len(name))
PathStem(name) ==
    IF SuffixStart(name) = 0 THEN name
    ELSE SubSeq(name, 1, SuffixStart(name) - 1)

\* packages.py 312-322: f"{stem} (1){suffix}"
get_duplicate_name(name) ==
    PathStem(PathName(name)) \o <<" ", "(", "1", ")">> \o PathSuffix(PathName(name))

\* ---- the listing, the candidates, the remote dataset ---------------------
DatasetName == <<"f">>
FolderName == <<"f">>
OrigName == <<"p", ".", "t">>
DupName == <<"p", " ", "(", "1", ")", ".", "t">>

\* content.state values that mark a deleted package (channels_processor.py).
is_deleted(pkg_content) == pkg_content.state \in {"DELETED", "DELETING"}

\* The listing: a folder "f" in place 1 (at the root, or, malformed, its own
\* parent), then MaxFiles files named "p.t" or "p (1).t", each at the root or
\* in the folder, each READY or DELETED.
FolderPkg(parent) ==
    [id |-> 1, nodeId |-> 1, name |-> FolderName, parentId |-> parent,
     state |-> "READY"]
FilePkg(i) ==
    {[id |-> i, nodeId |-> i, name |-> n, parentId |-> par, state |-> st] :
        n \in {OrigName, DupName}, par \in {NoId, 1}, st \in {"READY", "DELETED"}}

RECURSIVE CleanupListingsOf(_)
CleanupListingsOf(n) ==
    IF n = 1 THEN {<<FolderPkg(par)>> : par \in {NoId, 1}}
    ELSE {Append(l, f) : l \in CleanupListingsOf(n - 1), f \in FilePkg(n)}
CleanupListings == CleanupListingsOf(1 + MaxFiles)

\* Candidate paths: "p.t" and "{dataset}/p.t".
CandidatePaths == {OrigName, <<"{dataset}", "/">> \o OrigName}
CandidateLists == UNION {[1..n -> CandidatePaths] : n \in 0..MaxCands}

\* The remote dataset as the listing shows it.
RemoteOf(pkgs) ==
    [n \in {pkgs[k].nodeId : k \in DOMAIN pkgs} |->
        LET pkg == pkgs[MaxOf({k \in DOMAIN pkgs : pkgs[k].nodeId = n})]
        IN  [name |-> pkg.name, state |-> pkg.state]]

\* The effect of a delete or rename request the remote API accepts.
RemoteDelete(rem, node) == [rem EXCEPT ![node].state = "DELETED"]
RemoteRename(rem, node, new_name) == [rem EXCEPT ![node].name = new_name]

\* ---- the lookup by (path, name): packages.py 378-384 ---------------------
LocationOf(pkg, pkgs) == <<get_package_path(pkg, pkgs).path, pkg.name>>

BuildLocations(pkgs) ==
    [loc \in {LocationOf(pkgs[k], pkgs) : k \in DOMAIN pkgs} |->
        pkgs[MaxOf({k \in DOMAIN pkgs : LocationOf(pkgs[k], pkgs) = loc})]]

\* Some get_package_path call of the lookup loop does not return.
LookupDiverges(pkgs) ==
    \E k \in DOMAIN pkgs : get_package_path(pkgs[k], pkgs).diverges

\* dict.get(key): the package, or None.
LocGet(locs, key) == IF key \in DOMAIN locs THEN locs[key] ELSE NoPkg

\* ---- one candidate: packages.py 389-404 ----------------------------------
CandidatePath(i) == ReplaceDataset(file_paths[i], dataset_name)
CandidateFolder(i) == ParentFolder(CandidatePath(i))
CandidateName(i) == PathName(CandidatePath(i))
FindOriginal(i) == LocGet(pkg_by_location, <<CandidateFolder(i), CandidateName(i)>>)
FindDuplicate(i) ==
    LocGet(pkg_by_location,
           <<CandidateFolder(i), get_duplicate_name(CandidateName(i))>>)

\* A variant that renames the original's node (the wrong id in line 438).
RenameTarget_Original == original_pkg.nodeId

\* packages.py 422-423, 438: what the two requests are sent for.
DeleteTarget == original_pkg.nodeId
RenameTarget == duplicate_pkg.nodeId
RenameTo == filename

\* A variant that goes ahead when either package is found.
BothFound_Either(o, d) == o # NoPkg \/ d # NoPkg

\* packages.py 406-421: both packages were found ("not pkg" is "pkg is None").
BothFound(o, d) == o # NoPkg /\ d # NoPkg

\* A variant without the "continue" of line 434.
AfterDelete_AlwaysRename(ok) == "rename"

\* packages.py 431-436: where the loop goes after delete_package returned ok.
AfterDelete(ok) == IF ok THEN "rename" ELSE "loop"

\* A variant that counts a failed rename as a success.
CountAfterRename_AlwaysSuccess(ok) == <<success_count + 1, skip_count>>

\* packages.py 438-444: (success_count, skip_count) after rename_package
\* returned ok.
CountAfterRename(ok) ==
    IF ok THEN <<success_count + 1, skip_count>>
    ELSE <<success_count, skip_count + 1>>

\* A variant that sends the request in dry-run mode too.
SendsRequest_Always(dry) == TRUE

\* packages.py 125-127, 153-155: in dry-run mode delete_package and
\* rename_package return before the request is made.
SendsRequest(dry) == ~dry

\* One delete_package / rename_package call in the log; sent tells whether a
\* request went to the remote API.
LogEntry(op, node, new_name, ok) ==
    [cand |-> idx, op |-> op, node |-> node, new_name |-> new_name, ok |-> ok,
     sent |-> SendsRequest(dry_run)]

\* delete_package / rename_package return True in dry-run mode, else what the
\* request gives: packages.py 125-138, 153-166.
CallOutcomes == IF dry_run THEN {TRUE} ELSE BOOLEAN

CleanupInit ==
    /\ packages \in CleanupListings
    /\ file_paths \in CandidateLists
    /\ dataset_name = DatasetName
    /\ dataset_found \in BOOLEAN
    /\ dry_run \in BOOLEAN
    /\ pkg_by_location = <<>>
    /\ idx = 0
    /\ original_pkg = NoPkg /\ duplicate_pkg = NoPkg /\ filename = EmptyStr
    /\ success_count = 0 /\ skip_count = 0
    /\ cpc = "start"
    /\ cleanup_result = <<0, 0>>
    /\ oplog = <<>>
    /\ remote = RemoteOf(packages)
    /\ operation = "cleanup_duplicates"
    /\ pattern = EmptyStr /\ pkg_by_path = <<>> /\ matches = <<>>
    /\ PathIdle
    /\ SidecarIdle
    /\ NamesIdle

\* packages.py 365-369: dataset not found.
CleanupDatasetNotFound ==
    /\ operation = "cleanup_duplicates"
    /\ cpc = "start"
    /\ ~dataset_found
    /\ cleanup_result' = <<0, Len(file_paths)>>
    /\ cpc' = "done"
    /\ UNCHANGED <<packages, file_paths, dataset_name, dataset_found, dry_run, operation,
                   pattern, pkg_by_path, matches,
                   pkg_by_location, idx, original_pkg, duplicate_pkg, filename,
                   success_count, skip_count, oplog, remote, pathVars,
                   sidecarVars, nameVars>>

\* packages.py 378-384 on a listing with a parent cycle: get_package_path
\* does not return, and neither does cleanup_duplicates.
CleanupHang ==
    /\ operation = "cleanup_duplicates"
    /\ cpc = "start"
    /\ dataset_found
    /\ LookupDiverges(packages)
    /\ cpc' = "hung"
    /\ UNCHANGED <<packages, file_paths, dataset_name, dataset_found, dry_run, operation,
                   pattern, pkg_by_path, matches,
                   pkg_by_location, idx, original_pkg, duplicate_pkg, filename,
                   success_count, skip_count, cleanup_result, oplog, remote,
                   pathVars, sidecarVars, nameVars>>

\* packages.py 371-387: the lookup is built, the counters start at 0.
CleanupBuildLookup ==
    /\ operation = "cleanup_duplicates"
    /\ cpc = "start"
    /\ dataset_found
    /\ ~LookupDiverges(packages)
    /\ pkg_by_location' = BuildLocations(packages)
    /\ success_count' = 0
    /\ skip_count' = 0
    /\ idx' = 1
    /\ cpc' = "loop"
    /\ UNCHANGED <<packages, file_paths, dataset_name, dataset_found, dry_run, operation,
                   pattern, pkg_by_path, matches,
                   original_pkg, duplicate_pkg, filename, cleanup_result, oplog,
                   remote, pathVars, sidecarVars, nameVars>>

\* packages.py 389-419: a candidate of which the original or the duplicate is
\* not found is skipped.
CleanupSkipMissing ==
    /\ cpc = "loop"
    /\ idx <= Len(file_paths)
    /\ ~BothFound(FindOriginal(idx), FindDuplicate(idx))
    /\ original_pkg' = FindOriginal(idx)
    /\ duplicate_pkg' = FindDuplicate(idx)
    /\ filename' = CandidateName(idx)
    /\ skip_count' = skip_count + 1
    /\ idx' = idx + 1
    /\ UNCHANGED <<packages, file_paths, dataset_name, dataset_found, dry_run, operation,
                   pattern, pkg_by_path, matches,
                   pkg_by_location, success_count, cpc, cleanup_result, oplog,
                   remote, pathVars, sidecarVars, nameVars>>

\* packages.py 389-427: both are found.
CleanupFoundBoth ==
    /\ cpc = "loop"
    /\ idx <= Len(file_paths)
    /\ BothFound(FindOriginal(idx), FindDuplicate(idx))
    /\ original_pkg' = FindOriginal(idx)
    /\ duplicate_pkg' = FindDuplicate(idx)
    /\ filename' = CandidateName(idx)
    /\ cpc' = "delete"
    /\ UNCHANGED <<packages, file_paths, dataset_name, dataset_found, dry_run, operation,
                   pattern, pkg_by_path, matches,
                   pkg_by_location, idx, success_count, skip_count,
                   cleanup_result, oplog, remote, pathVars, sidecarVars, nameVars>>

\* packages.py 429-431 with delete_package returning True.
CleanupDeleteOk ==
    /\ cpc = "delete"
    /\ TRUE \in CallOutcomes
    /\ oplog' = Append(oplog, LogEntry("delete", DeleteTarget, EmptyStr, TRUE))
    /\ remote' = IF SendsRequest(dry_run)
                 THEN RemoteDelete(remote, DeleteTarget) ELSE remote
    /\ cpc' = AfterDelete(TRUE)
    /\ UNCHANGED <<packages, file_paths, dataset_name, dataset_found, dry_run, operation,
                   pattern, pkg_by_path, matches,
                   pkg_by_location, idx, original_pkg, duplicate_pkg, filename,
                   success_count, skip_count, cleanup_result, pathVars,
                   sidecarVars, nameVars>>

\* packages.py 431-434 with delete_package returning False.
CleanupDeleteFail ==
    /\ cpc = "delete"
    /\ FALSE \in CallOutcomes
    /\ oplog' = Append(oplog, LogEntry("delete", DeleteTarget, EmptyStr, FALSE))
    /\ skip_count' = skip_count + 1
    /\ idx' = idx + 1
    /\ cpc' = AfterDelete(FALSE)
    /\ UNCHANGED <<packages, file_paths, dataset_name, dataset_found, dry_run, operation,
                   pattern, pkg_by_path, matches,
                   pkg_by_location, original_pkg, duplicate_pkg, filename,
                   success_count, cleanup_result, remote, pathVars,
                   sidecarVars, nameVars>>

\* packages.py 436-444 with rename_package returning True.
CleanupRenameOk ==
    /\ cpc = "rename"
    /\ TRUE \in CallOutcomes
    /\ oplog' = Append(oplog, LogEntry("rename", RenameTarget, RenameTo, TRUE))
    /\ remote' = IF SendsRequest(dry_run)
                 THEN RemoteRename(remote, RenameTarget, RenameTo)
                 ELSE remote
    /\ success_count' = CountAfterRename(TRUE)[1]
    /\ skip_count' = CountAfterRename(TRUE)[2]
    /\ idx' = idx + 1
    /\ cpc' = "loop"
    /\ UNCHANGED <<packages, file_paths, dataset_name, dataset_found, dry_run, operation,
                   pattern, pkg_by_path, matches,
                   pkg_by_location, original_pkg, duplicate_pkg, filename,
                   cleanup_result, pathVars, sidecarVars, nameVars>>

\* packages.py 438-441 with rename_package returning False.
CleanupRenameFail ==
    /\ cpc = "rename"
    /\ FALSE \in CallOutcomes
    /\ oplog' = Append(oplog, LogEntry("rename", RenameTarget, RenameTo, FALSE))
    /\ success_count' = CountAfterRename(FALSE)[1]
    /\ skip_count' = CountAfterRename(FALSE)[2]
    /\ idx' = idx + 1
    /\ cpc' = "loop"
    /\ UNCHANGED <<packages, file_paths, dataset_name, dataset_found, dry_run, operation,
                   pattern, pkg_by_path, matches,
                   pkg_by_location, original_pkg, duplicate_pkg, filename,
                   cleanup_result, remote, pathVars, sidecarVars, nameVars>>

\* packages.py 446: every candidate has been looked at.
CleanupReturn ==
    /\ cpc = "loop"
    /\ idx > Len(file_paths)
    /\ cleanup_result' = <<success_count, skip_count>>
    /\ cpc' = "done"
    /\ UNCHANGED <<packages, file_paths, dataset_name, dataset_found, dry_run, operation,
                   pattern, pkg_by_path, matches,
                   pkg_by_location, idx, original_pkg, duplicate_pkg, filename,
                   success_count, skip_count, oplog, remote, pathVars,
                   sidecarVars, nameVars>>

CleanupNext ==
    \/ CleanupDatasetNotFound
    \/ CleanupHang
    \/ CleanupBuildLookup
    \/ CleanupSkipMissing
    \/ CleanupFoundBoth
    \/ CleanupDeleteOk
    \/ CleanupDeleteFail
    \/ CleanupRenameOk
    \/ CleanupRenameFail
    \/ CleanupReturn

SpecCleanup == CleanupInit /\ [][CleanupNext]_vars

\* ---- properties of cleanup_duplicates ------------------------------------
\* Candidate c has been classified: the loop has moved past it.
CandidateDone(c) ==
    /\ dataset_found
    /\ cpc \in {"loop", "delete", "rename", "done"}
    /\ c \in 1..Len(file_paths)
    /\ c < idx

\* The node ids of the listed packages named name in folder.
NodesAt(folder, name) ==
    {packages[k].nodeId : k \in
        {j \in DOMAIN packages :
            /\ packages[j].name = name
            /\ get_package_path(packages[j], packages).path = folder}}

OriginalNodes(c) == NodesAt(CandidateFolder(c), CandidateName(c))
DuplicateNodes(c) ==
    NodesAt(CandidateFolder(c), get_duplicate_name(CandidateName(c)))

\* The original and its "(1)" duplicate are both listed in the same folder.
BothExist(c) == OriginalNodes(c) # {} /\ DuplicateNodes(c) # {}

\* The delete_package / rename_package calls made for candidate c, in order.
EntriesOf(c) ==
    LET ForC(e) == e.cand = c
    IN  SelectSeq(oplog, ForC)

DeleteSucceeded(c) ==
    EntriesOf(c) # <<>> /\ EntriesOf(c)[1].op = "delete" /\ EntriesOf(c)[1].ok
DeleteFailed(c) ==
    EntriesOf(c) # <<>> /\ EntriesOf(c)[1].op = "delete" /\ ~EntriesOf(c)[1].ok
RenameSucceeded(c) ==
    Len(EntriesOf(c)) >= 2 /\ EntriesOf(c)[2].op = "rename" /\ EntriesOf(c)[2].ok
RenameFailed(c) ==
    Len(EntriesOf(c)) >= 2 /\ EntriesOf(c)[2].op = "rename" /\ ~EntriesOf(c)[2].ok

\* The candidates classified so far, and those among them that came through
\* both steps.
DoneCandidates == {c \in 1..Len(file_paths) : CandidateDone(c)}
CleanedCandidates ==
    {c \in DoneCandidates : DeleteSucceeded(c) /\ RenameSucceeded(c)}

\* The counters agree with what happened to the candidates classified so far.
CountsAgree ==
    (dataset_found /\ cpc \in {"loop", "delete", "rename", "done"}) =>
        /\ success_count = Cardinality(CleanedCandidates)
        /\ skip_count = Cardinality(DoneCandidates \ CleanedCandidates)

\* C1: a candidate whose original and duplicate are both listed in the same
\* folder and whose delete and rename both succeed: the delete of the
\* original's node comes first, the rename of the duplicate's node to the
\* file name follows the successful delete at once, the candidate adds one
\* to success_count, and a call with that single candidate returns (1, 0).
C1_DeleteThenRenameCountsOne ==
    /\ \A k \in DOMAIN oplog :
          oplog[k].op = "rename" =>
              /\ k > 1
              /\ oplog[k - 1].op = "delete"
              /\ oplog[k - 1].ok
              /\ oplog[k - 1].cand = oplog[k].cand
    /\ \A c \in DoneCandidates :
          (BothExist(c) /\ ~DeleteFailed(c) /\ ~RenameFailed(c)) =>
              /\ Len(EntriesOf(c)) = 2
              /\ EntriesOf(c)[1].op = "delete"
              /\ EntriesOf(c)[1].node \in OriginalNodes(c)
              /\ EntriesOf(c)[1].ok
              /\ EntriesOf(c)[2].op = "rename"
              /\ EntriesOf(c)[2].node \in DuplicateNodes(c)
              /\ EntriesOf(c)[2].new_name = CandidateName(c)
              /\ EntriesOf(c)[2].ok
              /\ c \in CleanedCandidates
    /\ CountsAgree
    /\ (cpc = "done" /\ Len(file_paths) = 1 /\ CleanedCandidates = {1})
          => cleanup_result = <<1, 0>>

\* C1 witness: "f/p.t" and "f/p (1).t" both listed, one candidate, two
\* requests sent and accepted, (1, 0) returned.
C1_Witness ==
    /\ cpc = "done"
    /\ Len(file_paths) = 1
    /\ CandidateFolder(1) = FolderName
    /\ BothExist(1)
    /\ Len(oplog) = 2
    /\ oplog[1].op = "delete" /\ oplog[1].ok /\ oplog[1].sent
    /\ oplog[2].op = "rename" /\ oplog[2].ok /\ oplog[2].sent
    /\ cleanup_result = <<1, 0>>

\* C2: when both files are listed and the delete of the original fails, no
\* rename is attempted for the candidate, the candidate counts as one skip,
\* and the loop goes on to the next candidate.
C2_FailedDeleteSkipsRename ==
    /\ \A k \in DOMAIN oplog :
          (oplog[k].op = "delete" /\ ~oplog[k].ok) =>
              (k = Len(oplog) \/ oplog[k + 1].op = "delete")
    /\ \A c \in DoneCandidates :
          DeleteFailed(c) =>
              /\ BothExist(c)
              /\ Len(EntriesOf(c)) = 1
              /\ c \notin CleanedCandidates
    /\ (\E c \in DoneCandidates : DeleteFailed(c)) => CountsAgree
    /\ (oplog # <<>> /\ oplog[Len(oplog)].op = "delete" /\ ~oplog[Len(oplog)].ok)
          => (cpc \in {"loop", "delete", "done"} /\ idx > oplog[Len(oplog)].cand)
    /\ (cpc = "done" /\ dataset_found) => idx = Len(file_paths) + 1

\* C2 witness: the first of two candidates failed at the delete, the second
\* was still classified.
C2_Witness ==
    /\ cpc = "done"
    /\ Len(file_paths) = 2
    /\ DeleteFailed(1)
    /\ Len(EntriesOf(1)) = 1
    /\ cleanup_result[1] + cleanup_result[2] = 2
    /\ cleanup_result[2] >= 1

\* No earlier candidate of the call had a request accepted for the packages
\* of candidate c: the remote original and duplicate are as listed when c is
\* taken up.
Untouched(c) ==
    \A k \in DOMAIN oplog :
        (oplog[k].cand < c /\ oplog[k].ok /\ oplog[k].sent) =>
            oplog[k].node \notin (OriginalNodes(c) \cup DuplicateNodes(c))

C4_MissingFileOnlySkips ==
    /\ \A c \in DoneCandidates :
          ~BothExist(c) =>
              /\ EntriesOf(c) = <<>>
              /\ c \notin CleanedCandidates
    /\ (\E c \in DoneCandidates : ~BothExist(c)) => CountsAgree
    /\ (cpc \in {"delete", "rename"}) => BothExist(idx)
    /\ (cpc = "done" /\ dataset_found /\ Len(file_paths) = 1 /\ ~BothExist(1))
          => (cleanup_result = <<0, 1>> /\ oplog = <<>>
              /\ remote = RemoteOf(packages))

\* C4 witness: only "f/p (1).t" is listed in the folder, (0, 1) is returned.
C4_Witness ==
    /\ cpc = "done"
    /\ dataset_found
    /\ Len(file_paths) = 1
    /\ OriginalNodes(1) = {}
    /\ DuplicateNodes(1) # {}
    /\ cleanup_result = <<0, 1>>

\* C7: a package whose state is DELETED or DELETING is never the original or
\* the duplicate cleanup_duplicates picks, and never has a delete or rename
\* sent for it.
C7_DeletedNeverTargeted ==
    /\ (cpc \in {"delete", "rename"}) =>
          (~is_deleted(original_pkg) /\ ~is_deleted(duplicate_pkg))
    /\ \A k \in DOMAIN oplog :
          \A j \in DOMAIN packages :
              packages[j].nodeId = oplog[k].node => ~is_deleted(packages[j])

\* ---- properties of the whole cleanup_duplicates call -----------------------
\* The call has returned with every candidate counted once, and without a
\* request when the dataset was not found.
EveryCandidateCounted ==
    cpc = "done" =>
        /\ cleanup_result[1] + cleanup_result[2] = Len(file_paths)
        /\ ~dataset_found =>
              /\ cleanup_result = <<0, Len(file_paths)>>
              /\ oplog = <<>>
              /\ remote = RemoteOf(packages)

\* C26: cleanup_duplicates always terminates having classified every
\* candidate exactly once: the call never fails to return, success count
\* plus skip count is the number of candidate paths, and when the dataset is
\* not found the result is (0, number of candidates) with no remote change.
C26_TerminatesWithEveryCandidateCounted ==
    /\ cpc # "hung"
    /\ EveryCandidateCounted

\* C27: within one cleanup_duplicates call, whatever the candidate list (one
\* that names a path twice included), at most one delete request is sent per
\* package node id, and no delete or rename request is sent for a package
\* that an earlier request of the same call deleted or renamed.
C27_NoRequestForHandledPackage ==
    \A j \in DOMAIN oplog :
        \A k \in 1..(j - 1) :
            (oplog[k].sent /\ oplog[j].sent /\ oplog[k].node = oplog[j].node) =>
                /\ ~(oplog[k].op = "delete" /\ oplog[j].op = "delete")
                /\ ~oplog[k].ok

(***************************************************************************)
(* delete_by_pattern and delete_by_path: packages.py 172-306; and the      *)
(* three destructive methods of one manager side by side                   *)
(***************************************************************************)
\* content.packageType: the folder of the listing is a Collection.
packageType(pkg) == IF pkg.name = FolderName THEN "Collection" ELSE "File"

\* f"{pkg_path}/{name}" if pkg_path else name
FullPath(pkg, pkgs) ==
    LET pkg_path == get_package_path(pkg, pkgs).path
    IN  IF pkg_path # EmptyStr THEN pkg_path \o <<"/">> \o pkg.name
        ELSE pkg.name

\* fnmatch.fnmatch(s, pat) for a pattern of literal characters and "*".
RECURSIVE fnmatch(_, _)
fnmatch(s, pat) ==
    IF pat = <<>> THEN s = <<>>
    ELSE IF Head(pat) = "*"
    THEN fnmatch(s, Tail(pat)) \/ (s # <<>> /\ fnmatch(Tail(s), pat))
    ELSE s # <<>> /\ Head(s) = Head(pat) /\ fnmatch(Tail(s), Tail(pat))

\* file_path.lstrip("/")
RECURSIVE LStripSlash(_)
LStripSlash(s) ==
    IF s # <<>> /\ Head(s) = "/" THEN LStripSlash(Tail(s)) ELSE s

\* packages.py 275-282: the lookup by full path, a later package replacing
\* an earlier one with the same path.
BuildPaths(pkgs) ==
    [fp \in {FullPath(pkgs[k], pkgs) : k \in DOMAIN pkgs} |->
        pkgs[MaxOf({k \in DOMAIN pkgs : FullPath(pkgs[k], pkgs) = fp})]]

\* packages.py 206-220: the files whose full path or name matches.
IsMatch(pkg, pkgs, pat) ==
    /\ packageType(pkg) # "Collection"
    /\ fnmatch(FullPath(pkg, pkgs), pat) \/ fnmatch(pkg.name, pat)

FindMatches(pkgs, pat) ==
    LET Hit(pkg) == IsMatch(pkg, pkgs, pat)
    IN  SelectSeq(pkgs, Hit)

\* Some get_package_path call of delete_by_pattern's loop does not return:
\* the loop asks for the path of every package that is not a Collection.
MatchingDiverges(pkgs) ==
    \E k \in DOMAIN pkgs :
        /\ packageType(pkgs[k]) # "Collection"
        /\ get_package_path(pkgs[k], pkgs).diverges

\* Listings for the three methods: as above, every file READY (none of the
\* three methods reads the state).
ManagerListings ==
    {l \in CleanupListings : \A k \in DOMAIN l : l[k].state = "READY"}

\* Paths handed to delete_by_path: "p.t", "/f/p.t" and the absent "q.t".
DeletePaths == {OrigName, <<"/", "f", "/">> \o OrigName, <<"q", ".", "t">>}
DeletePathLists == UNION {[1..n -> DeletePaths] : n \in 0..MaxCands}

\* Patterns handed to delete_by_pattern: "*.t", "f/*", "p.t" and "q*".
Patterns == {<<"*", ".", "t">>, <<"f", "/", "*">>, OrigName, <<"q", "*">>}

ManagerInit ==
    /\ operation \in {"cleanup_duplicates", "delete_by_path", "delete_by_pattern"}
    /\ packages \in ManagerListings
    /\ file_paths \in (CASE operation = "cleanup_duplicates" -> CandidateLists
                         [] operation = "delete_by_path" -> DeletePathLists
                         [] OTHER -> {<<>>})
    /\ pattern \in (IF operation = "delete_by_pattern" THEN Patterns
                    ELSE {EmptyStr})
    /\ dataset_name = DatasetName
    /\ dataset_found \in BOOLEAN
    /\ dry_run \in BOOLEAN
    /\ pkg_by_location = <<>> /\ pkg_by_path = <<>> /\ matches = <<>>
    /\ idx = 0
    /\ original_pkg = NoPkg /\ duplicate_pkg = NoPkg /\ filename = EmptyStr
    /\ success_count = 0 /\ skip_count = 0
    /\ cpc = "start"
    /\ cleanup_result = <<0, 0>>
    /\ oplog = <<>>
    /\ remote = RemoteOf(packages)
    /\ PathIdle
    /\ SidecarIdle
    /\ NamesIdle

\* packages.py 195-198, 267-270: dataset not found.
DeleteDatasetNotFound ==
    /\ operation \in {"delete_by_path", "delete_by_pattern"}
    /\ cpc = "start"
    /\ ~dataset_found
    /\ cleanup_result' = IF operation = "delete_by_path"
                         THEN <<0, Len(file_paths)>> ELSE <<0, 0>>
    /\ cpc' = "done"
    /\ UNCHANGED <<packages, file_paths, dataset_name, dataset_found, dry_run,
                   operation, pattern, pkg_by_path, matches, pkg_by_location,
                   idx, original_pkg, duplicate_pkg, filename, success_count,
                   skip_count, oplog, remote, pathVars, sidecarVars, nameVars>>

\* packages.py 277-282, 206-217 on a listing with a parent cycle:
\* get_package_path does not return.
DeleteHang ==
    /\ cpc = "start"
    /\ dataset_found
    /\ \/ operation = "delete_by_path" /\ LookupDiverges(packages)
       \/ operation = "delete_by_pattern" /\ MatchingDiverges(packages)
    /\ cpc' = "hung"
    /\ UNCHANGED <<packages, file_paths, dataset_name, dataset_found, dry_run,
                   operation, pattern, pkg_by_path, matches, pkg_by_location,
                   idx, original_pkg, duplicate_pkg, filename, success_count,
                   skip_count, cleanup_result, oplog, remote, pathVars,
                   sidecarVars, nameVars>>

\* delete_by_path, packages.py 272-285: the lookup is built.
DeleteByPathBuildLookup ==
    /\ operation = "delete_by_path"
    /\ cpc = "start"
    /\ dataset_found
    /\ ~LookupDiverges(packages)
    /\ pkg_by_path' = BuildPaths(packages)
    /\ success_count' = 0
    /\ skip_count' = 0
    /\ idx' = 1
    /\ cpc' = "path_loop"
    /\ UNCHANGED <<packages, file_paths, dataset_name, dataset_found, dry_run,
                   operation, pattern, matches, pkg_by_location, original_pkg,
                   duplicate_pkg, filename, cleanup_result, oplog, remote,
                   pathVars, sidecarVars, nameVars>>

\* delete_by_path, packages.py 287-297: the path is not in the lookup.
DeleteByPathNotFound ==
    /\ cpc = "path_loop"
    /\ idx <= Len(file_paths)
    /\ LStripSlash(file_paths[idx]) \notin DOMAIN pkg_by_path
    /\ skip_count' = skip_count + 1
    /\ idx' = idx + 1
    /\ UNCHANGED <<packages, file_paths, dataset_name, dataset_found, dry_run,
                   operation, pattern, pkg_by_path, matches, pkg_by_location,
                   original_pkg, duplicate_pkg, filename, success_count, cpc,
                   cleanup_result, oplog, remote, pathVars, sidecarVars,
                   nameVars>>

\* delete_by_path, packages.py 299-303: delete_package(node_id) for the
\* package found, counted by what it returns.
DeleteByPathDelete ==
    /\ cpc = "path_loop"
    /\ idx <= Len(file_paths)
    /\ LStripSlash(file_paths[idx]) \in DOMAIN pkg_by_path
    /\ \E ok \in CallOutcomes :
        LET node_id == pkg_by_path[LStripSlash(file_paths[idx])].nodeId
        IN  /\ oplog' = Append(oplog, LogEntry("delete", node_id, EmptyStr, ok))
            /\ remote' = IF ok /\ SendsRequest(dry_run)
                         THEN RemoteDelete(remote, node_id) ELSE remote
            /\ success_count' = IF ok THEN success_count + 1 ELSE success_count
            /\ skip_count' = IF ok THEN skip_count ELSE skip_count + 1
    /\ idx' = idx + 1
    /\ UNCHANGED <<packages, file_paths, dataset_name, dataset_found, dry_run,
                   operation, pattern, pkg_by_path, matches, pkg_by_location,
                   original_pkg, duplicate_pkg, filename, cpc, cleanup_result,
                   pathVars, sidecarVars, nameVars>>

\* delete_by_path, packages.py 305-306: return (deleted_count,
\* not_found_count).
DeleteByPathReturn ==
    /\ cpc = "path_loop"
    /\ idx > Len(file_paths)
    /\ cleanup_result' = <<success_count, skip_count>>
    /\ cpc' = "done"
    /\ UNCHANGED <<packages, file_paths, dataset_name, dataset_found, dry_run,
                   operation, pattern, pkg_by_path, matches, pkg_by_location,
                   idx, original_pkg, duplicate_pkg, filename, success_count,
                   skip_count, oplog, remote, pathVars, sidecarVars, nameVars>>

\* delete_by_pattern, packages.py 200-232: the matches are collected; with
\* none, (0, 0) is returned.
DeleteByPatternFindMatches ==
    /\ operation = "delete_by_pattern"
    /\ cpc = "start"
    /\ dataset_found
    /\ ~MatchingDiverges(packages)
    /\ matches' = FindMatches(packages, pattern)
    /\ success_count' = 0
    /\ skip_count' = 0
    /\ idx' = 1
    /\ cpc' = IF matches' = <<>> THEN "done" ELSE "pattern_loop"
    /\ UNCHANGED <<packages, file_paths, dataset_name, dataset_found, dry_run,
                   operation, pattern, pkg_by_path, pkg_by_location,
                   original_pkg, duplicate_pkg, filename, cleanup_result, oplog,
                   remote, pathVars, sidecarVars, nameVars>>

\* delete_by_pattern, packages.py 234-239: delete_package(node_id) for the
\* next match, counted by what it returns.
DeleteByPatternDelete ==
    /\ cpc = "pattern_loop"
    /\ idx <= Len(matches)
    /\ \E ok \in CallOutcomes :
        LET node_id == matches[idx].nodeId
        IN  /\ oplog' = Append(oplog, LogEntry("delete", node_id, EmptyStr, ok))
            /\ remote' = IF ok /\ SendsRequest(dry_run)
                         THEN RemoteDelete(remote, node_id) ELSE remote
            /\ success_count' = IF ok THEN success_count + 1 ELSE success_count
            /\ skip_count' = IF ok THEN skip_count ELSE skip_count + 1
    /\ idx' = idx + 1
    /\ UNCHANGED <<packages, file_paths, dataset_name, dataset_found, dry_run,
                   operation, pattern, pkg_by_path, matches, pkg_by_location,
                   original_pkg, duplicate_pkg, filename, cpc, cleanup_result,
                   pathVars, sidecarVars, nameVars>>

\* delete_by_pattern, packages.py 241-242: return (deleted_count,
\* failed_count).
DeleteByPatternReturn ==
    /\ cpc = "pattern_loop"
    /\ idx > Len(matches)
    /\ cleanup_result' = <<success_count, skip_count>>
    /\ cpc' = "done"
    /\ UNCHANGED <<packages, file_paths, dataset_name, dataset_found, dry_run,
                   operation, pattern, pkg_by_path, matches, pkg_by_location,
                   idx, original_pkg, duplicate_pkg, filename, success_count,
                   skip_count, oplog, remote, pathVars, sidecarVars, nameVars>>

DeleteNext ==
    \/ DeleteDatasetNotFound
    \/ DeleteHang
    \/ DeleteByPathBuildLookup
    \/ DeleteByPathNotFound
    \/ DeleteByPathDelete
    \/ DeleteByPathReturn
    \/ DeleteByPatternFindMatches
    \/ DeleteByPatternDelete
    \/ DeleteByPatternReturn

ManagerNext == CleanupNext \/ DeleteNext

SpecManager == ManagerInit /\ [][ManagerNext]_vars

\* ---- properties of the three methods in dry-run mode ----------------------
\* Every delete_package / rename_package call so far returned True.
AllCallsSucceeded == \A i \in DOMAIN oplog : oplog[i].ok

\* What a run in which every delete and rename succeeds reports: for
\* cleanup_duplicates the candidates with both packages listed and the rest,
\* for delete_by_path the paths that are listed and the rest, for
\* delete_by_pattern the matching files and 0; with the dataset not found,
\* (0, number of paths), and (0, 0) for delete_by_pattern.
ListedPaths == {FullPath(packages[k], packages) : k \in DOMAIN packages}
CountsOfFullSuccess ==
    CASE operation = "delete_by_pattern" ->
            IF dataset_found
            THEN <<Cardinality({k \in DOMAIN packages :
                        IsMatch(packages[k], packages, pattern)}), 0>>
            ELSE <<0, 0>>
      [] operation = "delete_by_path" ->
            IF dataset_found
            THEN <<Cardinality({i \in DOMAIN file_paths :
                        LStripSlash(file_paths[i]) \in ListedPaths}),
                   Cardinality({i \in DOMAIN file_paths :
                        LStripSlash(file_paths[i]) \notin ListedPaths})>>
            ELSE <<0, Len(file_paths)>>
      [] OTHER ->
            IF dataset_found
            THEN <<Cardinality({c \in DOMAIN file_paths : BothExist(c)}),
                   Cardinality({c \in DOMAIN file_paths : ~BothExist(c)})>>
            ELSE <<0, Len(file_paths)>>

\* C28: in dry-run mode no delete_package or rename_package call sends a
\* request and each returns True, so the remote dataset stays as listed
\* throughout cleanup_duplicates, delete_by_pattern and delete_by_path; and
\* the counts returned are those of a run in which every call succeeds,
\* which a real run with every call succeeding returns as well.
C28_DryRunChangesNothingAndCounts ==
    /\ dry_run =>
        /\ remote = RemoteOf(packages)
        /\ \A i \in DOMAIN oplog : oplog[i].ok /\ ~oplog[i].sent
    /\ (cpc = "done" /\ AllCallsSucceeded) =>
            cleanup_result = CountsOfFullSuccess

\* A dry run of cleanup_duplicates has returned after a delete and a rename
\* call, reporting one candidate cleaned.
C28_Witness ==
    /\ dry_run
    /\ operation = "cleanup_duplicates"
    /\ cpc = "done"
    /\ Len(oplog) >= 2
    /\ cleanup_result[1] >= 1

(***************************************************************************)
(* The duplicate-name functions on their own: packages.py 312-334          *)
(***************************************************************************)
MaxPieces == 4      \* pieces a file name is put together from

\* re.match(r'^(.+) \(1\)(\.[^.]+)$', name): the second group starts at the
\* last dot, which is not the last character; " (1)" stands right before it
\* and at least one character before that. 0 when there is no match, else
\* the index of that dot.
OriginalMatch(name) ==
    LET i == RFind(name, ".")
    IN  IF /\ i >= 6
           /\ i < Len(name)
           /\ SubSeq(name, i - 4, i - 1) = <<" ", "(", "1", ")">>
        THEN i ELSE 0

\* packages.py 324-334: f"{match.group(1)}{match.group(2)}", or the name
\* itself when there is no match.
get_original_name(name) ==
    LET i == OriginalMatch(name)
    IN  IF i = 0 THEN name
        ELSE SubSeq(name, 1, i - 5) \o SubSeq(name, i, Len(name))

\* File names: one to MaxPieces pieces in a row, a piece being a letter, a
\* dot or the duplicate mark " (1)", with a letter among them.
NamePieces == {<<"a">>, <<"b">>, <<".">>, <<" ", "(", "1", ")">>}

RECURSIVE NamesOfPieces(_)
NamesOfPieces(n) ==
    IF n = 0 THEN {<<>>}
    ELSE {front \o piece : front \in NamesOfPieces(n - 1), piece \in NamePieces}

FileNames ==
    {name \in UNION {NamesOfPieces(n) : n \in 1..MaxPieces} :
        \E i \in DOMAIN name : name[i] \in {"a", "b"}}

NamesInit ==
    /\ name_in \in FileNames
    /\ name_dup = <<>>
    /\ name_back = <<>>
    /\ npc = "new"
    /\ PathIdle
    /\ CleanupIdle
    /\ SidecarIdle

\* name_dup = self._get_duplicate_name(name_in)
GetDuplicateName ==
    /\ npc = "new"
    /\ name_dup' = get_duplicate_name(name_in)
    /\ npc' = "duplicated"
    /\ UNCHANGED <<name_in, name_back, pathVars, cleanupVars, sidecarVars>>

\* name_back = self._get_original_name(name_dup)
GetOriginalName ==
    /\ npc = "duplicated"
    /\ name_back' = get_original_name(name_dup)
    /\ npc' = "restored"
    /\ UNCHANGED <<name_in, name_dup, pathVars, cleanupVars, sidecarVars>>

\* name_back = self._get_original_name(name_in)
GetOriginalNameOfInput ==
    /\ npc = "new"
    /\ name_back' = get_original_name(name_in)
    /\ npc' = "stripped"
    /\ UNCHANGED <<name_in, name_dup, pathVars, cleanupVars, sidecarVars>>

NamesNext == GetDuplicateName \/ GetOriginalName \/ GetOriginalNameOfInput

SpecNames == NamesInit /\ [][NamesNext]_vars

\* C25: the duplicate-name mapping round-trips: for every file name,
\* _get_original_name(_get_duplicate_name(name)) is the name again, names
\* without extension, with several dots or starting with a dot included;
\* and _get_original_name returns a name that does not match the "(1)"
\* pattern unchanged.
C25_DuplicateNameRoundTrips ==
    /\ npc = "restored" => name_back = name_in
    /\ (npc = "stripped" /\ OriginalMatch(name_in) = 0) => name_back = name_in

(***************************************************************************)
(* The sidecar classes (src/sidecar-generation/sidecars).                  *)
(* A Python value is [ty |-> its Python type, v |-> its text]; a dict is a *)
(* function from keys to values, with the key order kept beside it where   *)
(* the code depends on it.                                                 *)
(***************************************************************************)
MaxRows == 2        \* rows one TSV instance holds (constructor + add_row)

TsvTypes == {"channels", "electrodes", "events", "participants_tsv"}
JsonTypes == {"coordsystem", "eeg", "ieeg", "participants"}
SidecarTypes == TsvTypes \cup JsonTypes

Val(t, x) == [ty |-> t, v |-> x]
PyStr(x) == Val("str", x)

\* base.py 30
excluded_fields == {"output_dir", "input_dir", "bids_path"}

\* The filename class attribute of each class.
ClassFilename(c) ==
    CASE c = "channels" -> "channels.tsv"
      [] c = "electrodes" -> "electrodes.tsv"
      [] c = "events" -> "events.tsv"
      [] c = "participants_tsv" -> "participants.tsv"
      [] c = "coordsystem" -> "coordsystem.json"
      [] c = "eeg" -> "eeg.json"
      [] c = "ieeg" -> "ieegx.json"
      [] c = "participants" -> "participants.json"

REQUIRED_FIELDS(c) ==
    CASE c = "channels" ->
            {"name", "type", "units", "sampling_frequency", "low_cutoff",
             "high_cutoff", "notch", "reference", "group"}
      [] c = "electrodes" -> {"name", "x", "y", "z", "size"}
      [] c = "events" -> {"onset", "duration"}
      [] c = "participants_tsv" ->
            {"participant_id", "species", "age", "population", "sex",
             "handedness"}
      [] c = "coordsystem" -> {"iEEGCoordinateSystem", "iEEGCoordinateUnits"}
      [] c = "eeg" ->
            {"TaskName", "EEGReference", "SamplingFrequency",
             "PowerLineFrequency", "SoftwareFilters"}
      [] c = "ieeg" ->
            {"TaskName", "PowerLineFrequency", "SamplingFrequency",
             "SoftwareFilters", "iEEGReference"}
      [] c = "participants" -> {"participant_id"}

RECOMMENDED_FIELDS(c) ==
    CASE c = "channels" -> {"ground"}
      [] c = "electrodes" -> {"material", "manufacturer", "group", "hemisphere"}
      [] c = "events" -> {}
      [] c = "participants_tsv" -> {}
      [] c = "coordsystem" ->
            {"iEEGCoordinateSystemDescription",
             "iEEGCoordinateProcessingDescription",
             "iEEGCoordinateProcessingReference"}
      [] c = "eeg" ->
            {"TaskDescription", "Instructions", "CogAtlasID", "CogPOID",
             "InstitutionName", "InstitutionAddress",
             "InstitutionalDepartmentName", "Manufacturer",
             "ManufacturersModelName", "SoftwareVersions",
             "DeviceSerialNumber", "CapManufacturer",
             "CapManufacturersModelName", "EEGGround", "EEGChannelCount",
             "ECGChannelCount", "EMGChannelCount", "EOGChannelCount",
             "MISCChannelCount", "TriggerChannelCount", "RecordingDuration",
             "RecordingType", "HeadCircumference", "EEGPlacementScheme",
             "HardwareFilters", "SubjectArtefactDescription"}
      [] c = "ieeg" ->
            {"Manufacturer", "ManufacturersModelName", "SoftwareVersions",
             "DeviceSerialNumber", "HardwareFilters", "RecordingDuration",
             "RecordingType", "iEEGGround", "ECOGChannelCount",
             "SEEGChannelCount", "EEGChannelCount", "EOGChannelCount",
             "ECGChannelCount", "EMGChannelCount", "MiscChannelCount",
             "TriggerChannelCount", "ElectrodeManufacturer",
             "ElectrodeManufacturersModelName", "EpochLength",
             "iEEGPlacementScheme", "iEEGElectrodeGroups",
             "SubjectArtefactDescription", "TaskDescription", "Instructions",
             "CogAtlasID", "CogPOID", "InstitutionName",
             "InstitutionAddress", "InstitutionalDepartmentName"}
      [] c = "participants" ->
            {"species", "age", "sex", "handedness", "strain", "strain_rrid"}

OPTIONAL_FIELDS(c) ==
    CASE c = "channels" -> {"description"}
      [] c = "electrodes" -> {"type", "impedance", "dimension", "roi"}
      [] c = "events" ->
            {"trial_type", "response_time", "HED", "stim_file", "channel",
             "Description", "Parent", "Annotated", "Annotator", "Type",
             "Layer"}
      [] c = "participants_tsv" -> {}
      [] c = "coordsystem" -> {"IntendedFor"}
      [] c = "eeg" ->
            {"EpochLength", "ElectricalStimulation",
             "ElectricalStimulationParameters"}
      [] c = "ieeg" ->
            {"ElectricalStimulation", "ElectricalStimulationParameters"}
      [] c = "participants" -> {"HED"}

\* ROW_DEFAULTS of the TSV classes, DEFAULTS of the JSON classes.
DEFAULTS(c) ==
    CASE c = "channels" ->
            [type |-> PyStr("SEEG"), units |-> PyStr("uV"),
             low_cutoff |-> PyStr("n/a"), high_cutoff |-> PyStr("n/a"),
             notch |-> PyStr("n/a"), reference |-> PyStr("unknown"),
             ground |-> PyStr("unknown"), group |-> PyStr("n/a"),
             sampling_frequency |-> PyStr("n/a")]
      [] c = "electrodes" ->
            [size |-> PyStr("n/a"), material |-> PyStr("n/a"),
             manufacturer |-> PyStr("n/a"), group |-> PyStr("n/a"),
             hemisphere |-> PyStr("n/a")]
      [] c = "events" ->
            [duration |-> PyStr("n/a"), trial_type |-> PyStr("n/a")]
      [] c = "participants_tsv" ->
            [species |-> PyStr("Homo sapiens"), age |-> PyStr("n/a"),
             population |-> PyStr("n/a"), sex |-> PyStr("n/a"),
             handedness |-> PyStr("n/a")]
      [] c = "coordsystem" ->
            [iEEGCoordinateSystem |-> PyStr("fsnative"),
             iEEGCoordinateUnits |-> PyStr("mm"),
             iEEGCoordinateSystemDescription |->
                 PyStr("Native FreeSurfer surface space."),
             iEEGCoordinateProcessingDescription |->
                 PyStr("Processed using FreeSurfer recon-all pipeline."),
             iEEGCoordinateProcessingReference |->
                 PyStr("Dale, A.M., Fischl, B., Sereno, M.I., 1999. Cortical surface-based analysis. NeuroImage.")]
      [] c = "eeg" ->
            [TaskName |-> PyStr("default_task"), EEGReference |-> PyStr("Cz"),
             SamplingFrequency |-> Val("float", "256.0"),
             PowerLineFrequency |-> Val("int", "60"),
             SoftwareFilters |-> PyStr("n/a"),
             Manufacturer |-> PyStr("Unknown"),
             ManufacturersModelName |-> PyStr("Unknown"),
             EEGGround |-> PyStr("n/a"),
             RecordingType |-> PyStr("continuous"),
             HeadCircumference |-> PyStr("n/a"),
             ElectricalStimulation |-> Val("bool", "False"),
             Description |->
                 PyStr("Automatically generated EEG sidecar file.")]
      [] c = "ieeg" ->
            [TaskName |-> PyStr("clinical"),
             PowerLineFrequency |-> Val("int", "60"),
             SamplingFrequency |-> PyStr("n/a"),
             SoftwareFilters |-> PyStr("n/a"),
             iEEGReference |-> PyStr("unknown"),
             iEEGGround |-> PyStr("unknown"),
             RecordingType |-> PyStr("discontinuous"),
             Manufacturer |-> PyStr("Natus"),
             ManufacturersModelName |-> PyStr("Quantum"),
             InstitutionName |-> PyStr("Penn Medicine"),
             ElectrodeManufacturer |-> PyStr("AD-TECH")]
      [] c = "participants" ->
            [participant_id |-> Val("dict", "Description, Units"),
             species |-> Val("dict", "Description, Units"),
             population |-> Val("dict", "Description, Levels"),
             sex |-> Val("dict", "Description, Levels")]

\* The keys of the default table in the order the class body lists them.
DefaultOrder(c) ==
    CASE c = "channels" ->
            <<"type", "units", "low_cutoff", "high_cutoff", "notch",
              "reference", "ground", "group", "sampling_frequency">>
      [] c = "electrodes" ->
            <<"size", "material", "manufacturer", "group", "hemisphere">>
      [] c = "events" -> <<"duration", "trial_type">>
      [] c = "participants_tsv" ->
            <<"species", "age", "population", "sex", "handedness">>
      [] c = "coordsystem" ->
            <<"iEEGCoordinateSystem", "iEEGCoordinateUnits",
              "iEEGCoordinateSystemDescription",
              "iEEGCoordinateProcessingDescription",
              "iEEGCoordinateProcessingReference">>
      [] c = "eeg" ->
            <<"TaskName", "EEGReference", "SamplingFrequency",
              "PowerLineFrequency", "SoftwareFilters", "Manufacturer",
              "ManufacturersModelName", "EEGGround", "RecordingType",
              "HeadCircumference", "ElectricalStimulation", "Description">>
      [] c = "ieeg" ->
            <<"TaskName", "PowerLineFrequency", "SamplingFrequency",
              "SoftwareFilters", "iEEGReference", "iEEGGround",
              "RecordingType", "Manufacturer", "ManufacturersModelName",
              "InstitutionName", "ElectrodeManufacturer">>
      [] c = "participants" ->
            <<"participant_id", "species", "population", "sex">>

\* channels.py 50-53
COLUMN_ORDER ==
    <<"name", "type", "units", "low_cutoff", "high_cutoff", "reference",
      "ground", "group", "sampling_frequency", "notch">>

\* ---- what callers hand to the constructors ------------------------------
\* The keys a caller supplies, in the order the caller's dict lists them:
\* one key the default table has, one it does not have, and a path key
\* (EEG: two keys the default table has).
SuppliedOrder(c) ==
    CASE c = "channels" -> <<"name", "sampling_frequency", "output_dir">>
      [] c = "electrodes" -> <<"name", "size", "output_dir">>
      [] c = "events" -> <<"onset", "duration", "output_dir">>
      [] c = "participants_tsv" -> <<"participant_id", "age", "output_dir">>
      [] c = "coordsystem" ->
            <<"iEEGCoordinateSystem", "IntendedFor", "output_dir">>
      [] c = "eeg" ->
            <<"RecordingType", "EpochLength", "SamplingFrequency",
              "output_dir">>
      [] c = "ieeg" -> <<"SamplingFrequency", "RecordingDuration", "output_dir">>
      [] c = "participants" -> <<"species", "age", "output_dir">>

SuppliedKeys(c) == {SuppliedOrder(c)[i] : i \in DOMAIN SuppliedOrder(c)}

\* The values a caller supplies for a key: for the key with a default, one
\* the validator accepts and one it does not.
SuppliedValues(c, k) ==
    CASE k = "output_dir" -> {PyStr("out")}
      [] k = "name" -> {PyStr("LA1")}
      [] k = "sampling_frequency" -> {Val("int", "512"), PyStr("fast")}
      [] k = "size" -> {Val("float", "2.5"), PyStr("big")}
      [] k = "onset" -> {Val("float", "0.5")}
      [] k = "duration" -> {Val("float", "1.5"), PyStr("long")}
      [] k = "participant_id" -> {PyStr("sub-01")}
      [] k = "age" /\ c = "participants_tsv" -> {Val("int", "34")}
      [] k = "age" /\ c = "participants" -> {Val("dict", "Description, Units")}
      [] k = "iEEGCoordinateSystem" -> {PyStr("Other"), Val("int", "7")}
      [] k = "IntendedFor" -> {PyStr("sub-01/anat")}
      [] k = "RecordingType" -> {PyStr("epoched"), PyStr("sleep")}
      [] k = "EpochLength" -> {Val("float", "2.0")}
      [] k = "SamplingFrequency" -> {Val("int", "512"), PyStr("fast")}
      [] k = "RecordingDuration" -> {Val("float", "3.5")}
      [] k = "species" -> {Val("dict", "Description, Levels"), PyStr("human")}

RowsOver(c, K) ==
    {f \in [K -> UNION {SuppliedValues(c, k) : k \in K}] :
        \A k \in K : f[k] \in SuppliedValues(c, k)}

\* The dicts a caller supplies: a fields dict, or one row.
SuppliedDicts(c) == UNION {RowsOver(c, K) : K \in SUBSET SuppliedKeys(c)}

\* The rows a caller supplies to a TSV class: as the dicts above, the path
\* key only in a row that has every other supplied key.
SuppliedRows(c) ==
    {r \in SuppliedDicts(c) :
        "output_dir" \in DOMAIN r => DOMAIN r = SuppliedKeys(c)}

SeqsUpTo(S, n) == UNION {[1..m -> S] : m \in 0..n}

\* The constructor's keyword options: none, or a file name and an output
\* directory.
KwargsOptions == {<<>>, [filename |-> "custom.out", output_dir |-> "out"]}

\* ---- construction ---------------------------------------------------------
\* A variant in which the default wins over the supplied value.
Merge_DefaultsWin(defaults, supplied) ==
    [k \in DOMAIN defaults \cup DOMAIN supplied |->
        IF k \in DOMAIN defaults THEN defaults[k] ELSE supplied[k]]

\* {**defaults, **supplied}
Merge(defaults, supplied) ==
    [k \in DOMAIN defaults \cup DOMAIN supplied |->
        IF k \in DOMAIN supplied THEN supplied[k] ELSE defaults[k]]

\* The key order of {**defaults, **supplied}: the default table's keys, then
\* the supplied keys it does not have.
MergedOrder(c, supplied) ==
    LET New(k) == k \in DOMAIN supplied /\ k \notin DOMAIN DEFAULTS(c)
    IN  DefaultOrder(c) \o SelectSeq(SuppliedOrder(c), New)

\* The key order of a dict the caller wrote.
LiteralOrder(c, supplied) ==
    LET Has(k) == k \in DOMAIN supplied
    IN  SelectSeq(SuppliedOrder(c), Has)

\* base.py 100: everything but the path keys is held in data.
WithoutExcluded(fields) ==
    [k \in DOMAIN fields \ excluded_fields |-> fields[k]]

\* base.py 88-97: paths from the class attributes and the keyword options.
PathsOf(kwargs) ==
    LET path_defaults == [bids_path |-> "bids_root/", input_dir |-> "input/",
                          output_dir |-> "output/"]
        merged_paths == Merge(path_defaults, kwargs)
    IN  [k \in DOMAIN merged_paths \cap excluded_fields |-> merged_paths[k]]

\* base.py 102-104: a keyword option named like an attribute replaces it.
FilenameOf(c, kwargs) ==
    IF "filename" \in DOMAIN kwargs THEN kwargs["filename"]
    ELSE ClassFilename(c)

\* The class attributes of class c as the class statement leaves them.
ClassAttrs(c) ==
    [REQUIRED_FIELDS |-> REQUIRED_FIELDS(c),
     RECOMMENDED_FIELDS |-> RECOMMENDED_FIELDS(c),
     OPTIONAL_FIELDS |-> OPTIONAL_FIELDS(c),
     DEFAULTS |-> DEFAULTS(c),
     COLUMN_ORDER |-> IF c = "channels" THEN COLUMN_ORDER ELSE <<>>,
     filename |-> ClassFilename(c)]

\* A variant in which the keyword options are bound on the class.
ClassAfterInit_BoundOnClass(cls, kwargs) ==
    IF "filename" \in DOMAIN kwargs
    THEN [cls EXCEPT !.filename = kwargs["filename"]]
    ELSE cls

\* base.py 102-109: setattr(self, k, v) and the assignments that follow bind
\* attributes of the instance; the class keeps its own.
ClassAfterInit(cls, kwargs) == cls

SidecarInit ==
    /\ sidecar_class \in SidecarTypes
    /\ in_fields \in (IF sidecar_class \in JsonTypes
                      THEN SuppliedDicts(sidecar_class) ELSE {<<>>})
    /\ in_rows \in (IF sidecar_class \in TsvTypes
                    THEN SeqsUpTo(SuppliedRows(sidecar_class), MaxRows)
                    ELSE {<<>>})
    /\ in_kwargs \in KwargsOptions
    /\ added_rows = <<>>
    /\ self_data = <<>> /\ self_rows = <<>> /\ self_paths = <<>>
    /\ self_filename = ""
    /\ save_kwargs = NoSaveArgs
    /\ save_outcome = NoOutcome
    /\ written = NoFile
    /\ logged = <<>>
    /\ validate_call = NoCall
    /\ validate_outcome = NoResult
    /\ class_attrs = ClassAttrs(sidecar_class)
    /\ spc = "new"
    /\ PathIdle
    /\ CleanupIdle
    /\ NamesIdle

\* CoordSystemSidecar / EEGSidecar / IeegSidecar / ParticipantsSidecar
\* __init__, then Sidecar.__init__.
ConstructJson ==
    /\ spc = "new"
    /\ sidecar_class \in JsonTypes
    /\ self_data' = WithoutExcluded(Merge(DEFAULTS(sidecar_class), in_fields))
    /\ self_rows' = <<>>
    /\ self_paths' = PathsOf(in_kwargs)
    /\ self_filename' = FilenameOf(sidecar_class, in_kwargs)
    /\ spc' = "built"
    /\ class_attrs' = ClassAfterInit(class_attrs, in_kwargs)
    /\ UNCHANGED <<sidecar_class, in_fields, in_rows, in_kwargs, added_rows,
                   save_kwargs, save_outcome, written, logged, pathVars,
                   cleanupVars, nameVars, validate_call, validate_outcome>>

\* ChannelsSidecar / ElectrodesSidecar / EventsSidecar /
\* ParticipantsSideCarTSV __init__: Sidecar.__init__ with fields = {}, then
\* every row merged with ROW_DEFAULTS.
ConstructTsv ==
    /\ spc = "new"
    /\ sidecar_class \in TsvTypes
    /\ self_data' = WithoutExcluded(<<>>)
    /\ self_rows' = [i \in 1..Len(in_rows) |->
                        Merge(DEFAULTS(sidecar_class), in_rows[i])]
    /\ self_paths' = PathsOf(in_kwargs)
    /\ self_filename' = FilenameOf(sidecar_class, in_kwargs)
    /\ spc' = "built"
    /\ class_attrs' = ClassAfterInit(class_attrs, in_kwargs)
    /\ UNCHANGED <<sidecar_class, in_fields, in_rows, in_kwargs, added_rows,
                   save_kwargs, save_outcome, written, logged, pathVars,
                   cleanupVars, nameVars, validate_call, validate_outcome>>

\* A variant that puts the new row in front.
AppendRow_InFront(rows, merged_row) == <<merged_row>> \o rows

\* self.rows.append(merged_row)
AppendRow(rows, merged_row) == Append(rows, merged_row)

\* add_row of the four TSV classes.
AddRow ==
    /\ spc = "built"
    /\ sidecar_class \in TsvTypes
    /\ Len(self_rows) < MaxRows
    /\ \E row \in SuppliedRows(sidecar_class) :
          /\ self_rows' = AppendRow(self_rows,
                                    Merge(DEFAULTS(sidecar_class), row))
          /\ added_rows' = Append(added_rows, row)
    /\ class_attrs' = class_attrs
    /\ UNCHANGED <<sidecar_class, in_fields, in_rows, in_kwargs, self_data,
                   self_paths, self_filename, save_kwargs, save_outcome,
                   written, logged, spc, pathVars, cleanupVars, nameVars,
                   validate_call, validate_outcome>>

\* ---- validation -----------------------------------------------------------
Concat(ss) ==
    LET RECURSIVE Cat(_)
        Cat(i) == IF i > Len(ss) THEN <<>> ELSE ss[i] \o Cat(i + 1)
    IN  Cat(1)

\* One message of a validation report.
Msg(kind, fields, row, field) ==
    [kind |-> kind, fields |-> fields, row |-> row, field |-> field]

\* The strings of the model float() parses.
NumericStrings == {"512", "2.5", "0.5", "1.5", "34", "2.0", "3.5", "60", "256.0"}

\* float(val) does not raise.
IsFloatable(val) ==
    \/ val.ty \in {"int", "float", "bool"}
    \/ val.ty = "str" /\ val.v \in NumericStrings

\* "val not in (None, 'n/a', 'N/A')" and float(val) raises.
NotNumeric(row, field) ==
    /\ field \in DOMAIN row
    /\ row[field].ty # "NoneType"
    /\ ~(row[field].ty = "str" /\ row[field].v \in {"n/a", "N/A"})
    /\ ~IsFloatable(row[field])

\* The numeric_fields list of a TSV validate.
NumericFields(c) ==
    CASE c = "channels" ->
            <<"low_cutoff", "high_cutoff", "sampling_frequency", "notch">>
      [] c = "electrodes" -> <<"x", "y", "z", "size", "impedance">>
      [] c = "events" -> <<"onset", "duration", "response_time">>
      [] c = "participants_tsv" -> <<>>

\* The numeric messages in the order the loops produce them: channels loops
\* over the fields and inside over the rows, the others over the rows and
\* inside over the fields.
NumericMsgs(c, rows) ==
    LET nf == NumericFields(c)
        One(i, j) == IF NotNumeric(rows[i], nf[j])
                     THEN <<Msg("not_numeric", {}, i, nf[j])>> ELSE <<>>
    IN  IF c = "channels"
        THEN Concat([j \in 1..Len(nf) |->
                        Concat([i \in 1..Len(rows) |-> One(i, j)])])
        ELSE Concat([i \in 1..Len(rows) |->
                        Concat([j \in 1..Len(nf) |-> One(i, j)])])

AllFields(rows) == UNION {DOMAIN rows[i] : i \in 1..Len(rows)}

InconsistentMsgs(rows) ==
    Concat([i \in 1..Len(rows) |->
        IF DOMAIN rows[i] # AllFields(rows)
        THEN <<Msg("inconsistent", {}, i, "")>> ELSE <<>>])

\* A variant that never finds a required field missing.
MissingRequired_None(c, observed) == {}

\* missing_required = self.REQUIRED_FIELDS - all_fields
MissingRequired(c, observed) == REQUIRED_FIELDS(c) \ observed

\* A variant that never finds an extra field.
ExtraFields_None(c, observed) == {}

\* extra_fields = all_fields - (REQUIRED | RECOMMENDED | OPTIONAL)
ExtraFields(c, observed) ==
    observed \ (REQUIRED_FIELDS(c) \cup RECOMMENDED_FIELDS(c)
                    \cup OPTIONAL_FIELDS(c))

\* A variant in which a numeric failure is never an error.
NumericIsError_Never(c) == FALSE

\* The classes whose validate appends a numeric failure to errors
\* (electrodes.py 108, events.py 112); channels.py 133 appends to warnings.
NumericIsError(c) == c \in {"electrodes", "events"}

\* validate(data) of the four TSV classes: (ok, report).
tsv_validate(c, data) ==
    IF data.kind # "list" \/ data.rows = <<>>
    THEN [ok |-> FALSE, errors |-> <<Msg("not_a_list", {}, 0, "")>>,
          warnings |-> <<>>, has_columns |-> FALSE, columns |-> {}]
    ELSE
      LET rows == data.rows
          all_fields == AllFields(rows)
          missing_required == MissingRequired(c, all_fields)
          missing_recommended == RECOMMENDED_FIELDS(c) \ all_fields
          extra_fields == ExtraFields(c, all_fields)
          e_required == IF missing_required # {}
                        THEN <<Msg("missing_required", missing_required, 0, "")>>
                        ELSE <<>>
          w_recommended ==
              IF c \in {"electrodes", "participants_tsv"}
                 /\ missing_recommended # {}
              THEN <<Msg("missing_recommended", missing_recommended, 0, "")>>
              ELSE <<>>
          w_extra == IF extra_fields # {}
                     THEN <<Msg("extra", extra_fields, 0, "")>> ELSE <<>>
          numeric == NumericMsgs(c, rows)
          errors == e_required
                    \o (IF NumericIsError(c) THEN numeric ELSE <<>>)
          warnings == w_recommended \o w_extra \o InconsistentMsgs(rows)
                      \o (IF c = "channels" THEN numeric ELSE <<>>)
      IN  [ok |-> errors = <<>>, errors |-> errors, warnings |-> warnings,
           has_columns |-> TRUE, columns |-> all_fields]

\* The JSON type jsonschema sees for a Python value.
JsonType(val) ==
    CASE val.ty = "str" -> "string"
      [] val.ty \in {"int", "float"} -> "number"
      [] val.ty = "bool" -> "boolean"
      [] val.ty = "dict" -> "object"
      [] val.ty = "list" -> "array"
      [] val.ty = "NoneType" -> "null"

Unconstrained == {"any"}
Alt(types, enum) == [types |-> types, enum |-> enum]

\* The alternatives the SCHEMA of class c gives for property k (one
\* alternative unless the schema says oneOf); a key the schema does not
\* name is unconstrained (additionalProperties true). Every key of
\* participants.json matches the patternProperties pattern and must be an
\* object.
PropertySchema(c, k) ==
    CASE c = "participants" -> {Alt({"object"}, Unconstrained)}
      [] c = "coordsystem" /\ k \in REQUIRED_FIELDS(c) \cup RECOMMENDED_FIELDS(c)
            -> {Alt({"string"}, Unconstrained)}
      [] c = "coordsystem" /\ k = "IntendedFor"
            -> {Alt({"string"}, Unconstrained), Alt({"array"}, Unconstrained)}
      [] c = "eeg" /\ k \in {"TaskName", "EEGReference", "Manufacturer",
                             "ManufacturersModelName", "EEGGround"}
            -> {Alt({"string"}, Unconstrained)}
      [] c = "eeg" /\ k \in {"SamplingFrequency", "EpochLength"}
            -> {Alt({"number"}, Unconstrained)}
      [] c = "eeg" /\ k = "PowerLineFrequency"
            -> {Alt({"number"}, Unconstrained), Alt(Unconstrained, {"n/a", "N/A"})}
      [] c = "eeg" /\ k = "SoftwareFilters"
            -> {Alt({"object"}, Unconstrained), Alt(Unconstrained, {"n/a", "N/A"})}
      [] c = "eeg" /\ k = "RecordingType"
            -> {Alt({"string"}, {"continuous", "epoched"})}
      [] c = "eeg" /\ k = "HeadCircumference"
            -> {Alt({"number", "string"}, Unconstrained)}
      [] c = "eeg" /\ k = "ElectricalStimulation" -> {Alt({"boolean"}, Unconstrained)}
      [] c = "ieeg" /\ k \in {"TaskName", "iEEGReference", "iEEGGround",
                              "Manufacturer", "ManufacturersModelName",
                              "RecordingType", "InstitutionName"}
            -> {Alt({"string"}, Unconstrained)}
      [] c = "ieeg" /\ k \in {"PowerLineFrequency", "SamplingFrequency"}
            -> {Alt({"number"}, Unconstrained)}
      [] c = "ieeg" /\ k = "SoftwareFilters"
            -> {Alt({"string", "object"}, Unconstrained)}
      [] c = "ieeg" /\ k = "RecordingDuration"
            -> {Alt({"number", "null"}, Unconstrained)}
      [] c = "ieeg" /\ k = "ElectricalStimulation"
            -> {Alt({"boolean", "string"}, Unconstrained)}
      [] OTHER -> {Alt(Unconstrained, Unconstrained)}

Matches(val, alt) ==
    /\ alt.types = Unconstrained \/ JsonType(val) \in alt.types
    /\ alt.enum = Unconstrained \/ (val.ty = "str" /\ val.v \in alt.enum)

\* The schema's "required" list.
SchemaRequired(c) == IF c = "participants" THEN {} ELSE REQUIRED_FIELDS(c)

\* The keys Draft202012Validator.iter_errors reports for a record.
SchemaErrors(c, record) ==
    {k \in DOMAIN record :
        Cardinality({a \in PropertySchema(c, k) : Matches(record[k], a)}) # 1}
    \cup (SchemaRequired(c) \ DOMAIN record)

\* str.lower() on the strings that reach it in the model.
Lower(x) ==
    CASE x = "Other" -> "other"
      [] x = "OTHER" -> "other"
      [] x = "Epoched" -> "epoched"
      [] OTHER -> x

\* A variant without the conditional rules.
ConditionalRequired_None(c, record) == {}

\* The field a conditional rule adds to missing_required: coordsystem.py
\* 91-96, eeg.py 161-166.
ConditionalRequired(c, record) ==
    CASE c = "coordsystem"
         /\ "iEEGCoordinateSystem" \in DOMAIN record
         /\ Lower(record["iEEGCoordinateSystem"].v) = "other"
         /\ "iEEGCoordinateSystemDescription" \notin DOMAIN record
            -> {"iEEGCoordinateSystemDescription"}
      [] c = "eeg"
         /\ "RecordingType" \in DOMAIN record
         /\ Lower(record["RecordingType"].v) = "epoched"
         /\ "EpochLength" \notin DOMAIN record
            -> {"EpochLength"}
      [] OTHER -> {}

\* A variant that looks at the missing fields before the schema errors.
FailureOf_MissingFirst(schema_errors, missing_required) ==
    IF missing_required # {} THEN "missing"
    ELSE IF schema_errors # {} THEN "schema"
    ELSE "none"

\* The order of the two raises of a JSON validate: schema errors (eeg.py
\* 150-153), then missing required fields (eeg.py 168-169).
FailureOf(schema_errors, missing_required) ==
    IF schema_errors # {} THEN "schema"
    ELSE IF missing_required # {} THEN "missing"
    ELSE "none"

\* validate() of the four JSON classes on the record the instance holds:
\* it returns True or raises ValueError.
json_validate(c, record) ==
    LET schema_errors == SchemaErrors(c, record)
        missing_required == MissingRequired(c, DOMAIN record)
                            \cup ConditionalRequired(c, record)
        missing_recommended == RECOMMENDED_FIELDS(c) \ DOMAIN record
        extras == ExtraFields(c, DOMAIN record)
        failure == FailureOf(schema_errors, missing_required)
        w_recommended ==
            IF missing_recommended # {}
            THEN <<Msg("missing_recommended", missing_recommended, 0, "")>>
            ELSE <<>>
        m_extra == IF extras # {} THEN <<Msg("extra", extras, 0, "")>>
                   ELSE <<>>
    IN  IF failure = "schema"
        THEN [raised |-> TRUE, errors |-> schema_errors, missing |-> {},
              warnings |-> <<>>, infos |-> <<>>]
        ELSE IF failure = "missing"
        THEN [raised |-> TRUE, errors |-> {}, missing |-> missing_required,
              warnings |-> <<>>, infos |-> <<>>]
        ELSE [raised |-> FALSE, errors |-> {}, missing |-> {},
              warnings |-> w_recommended
                           \o (IF c # "participants" THEN m_extra ELSE <<>>),
              infos |-> IF c = "participants" THEN m_extra ELSE <<>>]

\* ---- save -----------------------------------------------------------------
\* Electrode rows a caller wrote with every required field, in this key
\* order; the size is a number or a word.
CompleteOrder == <<"name", "x", "y", "z", "size">>

CompleteRows(c) ==
    IF c = "electrodes"
    THEN {[name |-> PyStr("LA1"), x |-> Val("float", "0.5"),
           y |-> Val("float", "1.5"), z |-> Val("float", "2.5"), size |-> s] :
              s \in SuppliedValues(c, "size")}
    ELSE {}

\* The data a caller passes to save(data=...): for a TSV class a one-row
\* list, the row merged with the defaults by the caller or left as written;
\* for a JSON class a one-key dict.
ExplicitData(c) ==
    IF c \in TsvTypes
    THEN {ListData(<<Merge(DEFAULTS(c), r)>>, MergedOrder(c, r)) :
              r \in RowsOver(c, SuppliedKeys(c) \ {"output_dir"})}
         \cup {ListData(<<r>>, LiteralOrder(c, r)) :
                  r \in RowsOver(c, {SuppliedOrder(c)[1]})}
         \cup {ListData(<<r>>, CompleteOrder) : r \in CompleteRows(c)}
    ELSE {DictData(r) : r \in RowsOver(c, {SuppliedOrder(c)[2]})}

\* The keyword arguments of one save call.
SaveArgs(c) ==
    {[validate |-> v, has_data |-> FALSE, data |-> DictData(<<>>),
      has_output_dir |-> FALSE, output_dir |-> ""] : v \in BOOLEAN}
    \cup {[validate |-> v, has_data |-> TRUE, data |-> d,
           has_output_dir |-> TRUE, output_dir |-> "elsewhere"] :
              v \in BOOLEAN, d \in ExplicitData(c)}

\* str(value), as csv.DictWriter writes a cell.
CellText(val) == IF val.ty = "NoneType" THEN "" ELSE val.v

\* One line of the TSV file: the row's cell under every header column, and
\* the empty string where the row has no such key.
TsvLine(header, row) ==
    [j \in 1..Len(header) |->
        IF header[j] \in DOMAIN row THEN CellText(row[header[j]]) ELSE ""]

\* What json.dump writes for a value.
JsonEncode(val) ==
    [type |-> JsonType(val),
     text |-> CASE val.ty = "bool" ->
                     (IF val.v = "True" THEN "true" ELSE "false")
                [] val.ty = "NoneType" -> "null"
                [] OTHER -> val.v]

JsonDump(record) == [k \in DOMAIN record |-> JsonEncode(record[k])]

JsonFile(record) ==
    [exists |-> TRUE, format |-> "json", header |-> <<>>, lines |-> <<>>,
     content |-> JsonDump(record)]

TsvFile(header, rows) ==
    [exists |-> TRUE, format |-> "tsv", header |-> header,
     lines |-> [i \in 1..Len(rows) |-> TsvLine(header, rows[i])],
     content |-> <<>>]

\* os.path.join(output_dir, filename)
JoinPath(dir, name) == [dir |-> dir, name |-> name]

Returned(path) == [kind |-> "returned", exc |-> "none", path |-> path]
Raised(exc) == [kind |-> "raised", exc |-> exc, path |-> <<>>]

ValidationWarning(report) ==
    <<[level |-> "warning", kind |-> "validation_failed",
       n |-> Len(report.errors)]>>
SavedInfo == <<[level |-> "info", kind |-> "saved", n |-> 0]>>

\* The rows DictWriter.writerows gets through before a row with a key
\* outside the header stops it (all of them if there is no such row).
WritableRows(header, rows) ==
    LET cols == {header[j] : j \in 1..Len(header)}
        bad == {i \in 1..Len(rows) : ~(DOMAIN rows[i] \subseteq cols)}
    IN  IF bad = {} THEN rows
        ELSE SubSeq(rows, 1, (CHOOSE i \in bad : \A j \in bad : i <= j) - 1)

\* Sidecar.save (base.py 146-171) with the write_data of the class: the one
\* save of every class but ChannelsSidecar.
SaveBase ==
    /\ spc = "built"
    /\ sidecar_class # "channels"
    /\ \E a \in SaveArgs(sidecar_class) :
        LET c == sidecar_class
            data == IF a.has_data THEN a.data ELSE DictData(self_data)
            validate_raises == a.validate /\ c \in JsonTypes
            report == tsv_validate(c, data)
            warn == IF a.validate /\ c \in TsvTypes /\ ~report.ok
                    THEN ValidationWarning(report) ELSE <<>>
            output_dir == IF a.has_output_dir /\ a.output_dir # ""
                          THEN a.output_dir ELSE "output/json"
            file_path == JoinPath(output_dir, self_filename)
            empty == IF data.kind = "list" THEN data.rows = <<>>
                     ELSE DOMAIN data.map = {}
            rows_out == WritableRows(data.keys, data.rows)
        IN  /\ save_kwargs' = a
            /\ IF validate_raises
               THEN /\ save_outcome' = Raised("TypeError")
                    /\ written' = NoFile
                    /\ logged' = <<>>
               ELSE IF c \in JsonTypes
               THEN /\ save_outcome' = Returned(file_path)
                    /\ written' = JsonFile(data.map)
                    /\ logged' = warn \o SavedInfo
               ELSE IF empty
               THEN /\ save_outcome' = Raised("ValueError")
                    /\ written' = NoFile
                    /\ logged' = warn
               ELSE IF rows_out # data.rows
               THEN /\ save_outcome' = Raised("ValueError")
                    /\ written' = TsvFile(data.keys, rows_out)
                    /\ logged' = warn
               ELSE /\ save_outcome' = Returned(file_path)
                    /\ written' = TsvFile(data.keys, data.rows)
                    /\ logged' = warn \o SavedInfo
    /\ spc' = "saved"
    /\ class_attrs' = class_attrs
    /\ UNCHANGED <<sidecar_class, in_fields, in_rows, in_kwargs, added_rows,
                   self_data, self_rows, self_paths, self_filename, pathVars,
                   cleanupVars, nameVars, validate_call, validate_outcome>>

\* sorted() on the column names that can stand outside COLUMN_ORDER.
SortedColumns(S) ==
    LET In(k) == k \in S
    IN  SelectSeq(<<"description", "output_dir">>, In)

\* channels.py 168-174: the header.
ChannelsHeader(rows) ==
    IF rows # <<>>
    THEN LET all_cols == AllFields(rows)
             Present(k) == k \in all_cols
             ordered == {COLUMN_ORDER[j] : j \in 1..Len(COLUMN_ORDER)}
         IN  SelectSeq(COLUMN_ORDER, Present) \o SortedColumns(all_cols \ ordered)
    ELSE COLUMN_ORDER

\* ChannelsSidecar.save (channels.py 138-182), output_path not given.
SaveChannels ==
    /\ spc = "built"
    /\ sidecar_class = "channels"
    /\ \E a \in SaveArgs(sidecar_class) :
        LET data == IF a.has_data THEN a.data ELSE ListData(self_rows, <<>>)
            report == tsv_validate("channels", data)
            warn == IF a.validate /\ ~report.ok
                    THEN ValidationWarning(report) ELSE <<>>
            output_dir == IF a.has_output_dir THEN a.output_dir
                          ELSE "output/tsv"
            output_path == JoinPath(output_dir, self_filename)
        IN  /\ save_kwargs' = a
            /\ save_outcome' = Returned(output_path)
            /\ written' = TsvFile(ChannelsHeader(data.rows), data.rows)
            /\ logged' = warn \o SavedInfo
    /\ spc' = "saved"
    /\ class_attrs' = class_attrs
    /\ UNCHANGED <<sidecar_class, in_fields, in_rows, in_kwargs, added_rows,
                   self_data, self_rows, self_paths, self_filename, pathVars,
                   cleanupVars, nameVars, validate_call, validate_outcome>>

\* ---- validate and run_validation as calls ---------------------------------
\* The arguments of one validate call on a TSV instance: no data (the rows
\* the instance holds are validated) or a list handed over.
ValidateArgs(c) ==
    {[op |-> "validate", strict |-> FALSE, has_data |-> FALSE,
      data |-> DictData(<<>>)]}
    \cup {[op |-> "validate", strict |-> FALSE, has_data |-> TRUE, data |-> d] :
              d \in ExplicitData(c)}

\* What validate(data) of a TSV class returns: (ok, report).
TsvOutcome(c, data) ==
    LET report == tsv_validate(c, data)
    IN  [kind |-> "returned", exc |-> "none", ok |-> report.ok,
         errors |-> report.errors, warnings |-> report.warnings,
         infos |-> <<>>, has_columns |-> report.has_columns,
         columns |-> report.columns]

\* How validate() of a JSON class ends: the schema errors and the missing
\* fields are logged as errors and raised as ValueError, the rest is logged
\* and True is returned.
JsonOutcome(c, record) ==
    LET report == json_validate(c, record)
        errors == IF report.errors # {}
                  THEN <<Msg("schema", report.errors, 0, "")>>
                  ELSE IF report.missing # {}
                  THEN <<Msg("missing_required", report.missing, 0, "")>>
                  ELSE <<>>
    IN  [kind |-> IF report.raised THEN "raised" ELSE "returned",
         exc |-> IF report.raised THEN "ValueError" ELSE "none",
         ok |-> ~report.raised,
         errors |-> errors, warnings |-> report.warnings,
         infos |-> report.infos, has_columns |-> FALSE, columns |-> {}]

\* A variant in which missing_required is the class's own set, so that the
\* conditional rule adds to it.
ClassAfterValidate_SharedSet(cls, c, record) ==
    [cls EXCEPT !.REQUIRED_FIELDS = @ \cup ConditionalRequired(c, record)]

\* eeg.py 155-166, coordsystem.py 85-96: missing_required is a new set, the
\* difference of REQUIRED_FIELDS and the record's keys; the conditional rule
\* adds to that set and the class keeps its own.
ClassAfterValidate(cls, c, record) == cls

\* validate(data=None) of the four TSV classes, called on the instance.
ValidateTsv ==
    /\ spc = "built"
    /\ sidecar_class \in TsvTypes
    /\ \E a \in ValidateArgs(sidecar_class) :
        LET data == IF a.has_data THEN a.data ELSE ListData(self_rows, <<>>)
        IN  /\ validate_call' = a
            /\ validate_outcome' = TsvOutcome(sidecar_class, data)
    /\ spc' = "validated"
    /\ class_attrs' = class_attrs
    /\ UNCHANGED <<sidecar_class, in_fields, in_rows, in_kwargs, added_rows,
                   self_data, self_rows, self_paths, self_filename,
                   save_kwargs, save_outcome, written, logged, pathVars,
                   cleanupVars, nameVars>>

\* validate() of the four JSON classes, called on the instance.
ValidateJson ==
    /\ spc = "built"
    /\ sidecar_class \in JsonTypes
    /\ validate_call' = [op |-> "validate", strict |-> FALSE,
                         has_data |-> FALSE, data |-> DictData(<<>>)]
    /\ validate_outcome' = JsonOutcome(sidecar_class, self_data)
    /\ spc' = "validated"
    /\ class_attrs' = ClassAfterValidate(class_attrs, sidecar_class, self_data)
    /\ UNCHANGED <<sidecar_class, in_fields, in_rows, in_kwargs, added_rows,
                   self_data, self_rows, self_paths, self_filename,
                   save_kwargs, save_outcome, written, logged, pathVars,
                   cleanupVars, nameVars>>

\* The same validate call made a second time, nothing done in between.
ValidateAgain ==
    /\ spc = "validated"
    /\ validate_call.op = "validate"
    /\ LET c == sidecar_class
           data == IF validate_call.has_data THEN validate_call.data
                   ELSE ListData(self_rows, <<>>)
       IN  /\ validate_outcome' = IF c \in TsvTypes THEN TsvOutcome(c, data)
                                  ELSE JsonOutcome(c, self_data)
           /\ class_attrs' = IF c \in TsvTypes THEN class_attrs
                             ELSE ClassAfterValidate(class_attrs, c, self_data)
    /\ spc' = "revalidated"
    /\ UNCHANGED <<sidecar_class, in_fields, in_rows, in_kwargs, added_rows,
                   self_data, self_rows, self_paths, self_filename,
                   save_kwargs, save_outcome, written, logged, pathVars,
                   cleanupVars, nameVars, validate_call>>

\* Whether validate of class c has a parameter named strict: none of the
\* eight has (channels.py 84, electrodes.py 56, events.py 65,
\* participants_tsv.py 56: validate(self, data=None); coordsystem.py 73,
\* eeg.py 147, ieeg.py 115, participants.py 83: validate(self)).
ValidateTakesStrict(c) == FALSE

\* Sidecar.run_validation (base.py 129-143): self.validate(strict=strict),
\* then log, raise ValueError when strict and not ok, return ok.
RunValidation ==
    /\ spc = "built"
    /\ \E strict \in BOOLEAN :
        LET c == sidecar_class
            report == tsv_validate(c, ListData(self_rows, <<>>))
            outcome ==
                IF ~ValidateTakesStrict(c) THEN
                    [kind |-> "raised", exc |-> "TypeError", ok |-> FALSE,
                     errors |-> <<>>, warnings |-> <<>>]
                ELSE IF ~report.ok /\ strict THEN
                    [kind |-> "raised", exc |-> "ValueError", ok |-> FALSE,
                     errors |-> report.errors, warnings |-> report.warnings]
                ELSE
                    [kind |-> "returned", exc |-> "none", ok |-> report.ok,
                     errors |-> IF report.ok THEN <<>> ELSE report.errors,
                     warnings |-> IF report.ok THEN <<>> ELSE report.warnings]
        IN  /\ validate_call' = [op |-> "run_validation", strict |-> strict,
                                 has_data |-> FALSE, data |-> DictData(<<>>)]
            /\ validate_outcome' =
                  [kind |-> outcome.kind, exc |-> outcome.exc,
                   ok |-> outcome.ok, errors |-> outcome.errors,
                   warnings |-> outcome.warnings, infos |-> <<>>,
                   has_columns |-> FALSE, columns |-> {}]
    /\ spc' = "validated"
    /\ class_attrs' = class_attrs
    /\ UNCHANGED <<sidecar_class, in_fields, in_rows, in_kwargs, added_rows,
                   self_data, self_rows, self_paths, self_filename,
                   save_kwargs, save_outcome, written, logged, pathVars,
                   cleanupVars, nameVars>>

SidecarNext ==
    \/ ConstructJson
    \/ ConstructTsv
    \/ AddRow
    \/ SaveBase
    \/ SaveChannels
    \/ ValidateTsv
    \/ ValidateJson
    \/ ValidateAgain
    \/ RunValidation

SpecSidecar == SidecarInit /\ [][SidecarNext]_vars

\* ---- properties of the sidecar classes ------------------------------------
\* The dicts the caller supplied and the records the instance holds for
\* them: the one fields dict and data for a JSON class, the rows of the
\* constructor and of add_row and the rows attribute for a TSV class.
SuppliedRecords ==
    IF sidecar_class \in JsonTypes THEN <<in_fields>>
    ELSE in_rows \o added_rows
HeldRecords ==
    IF sidecar_class \in JsonTypes THEN <<self_data>> ELSE self_rows

\* For key k the record holds the supplied value, else the default, else
\* nothing.
MergeLaw(record, supplied, defaults, k) ==
    IF k \in DOMAIN supplied
    THEN k \in DOMAIN record /\ record[k] = supplied[k]
    ELSE IF k \in DOMAIN defaults
    THEN k \in DOMAIN record /\ record[k] = defaults[k]
    ELSE k \notin DOMAIN record

KeysOfInterest(i) ==
    DOMAIN SuppliedRecords[i] \cup DOMAIN DEFAULTS(sidecar_class)
        \cup DOMAIN HeldRecords[i] \cup excluded_fields

FileHoldsRows(rows) ==
    /\ written.exists
    /\ written.format = "tsv"
    /\ Len(written.lines) = Len(rows)
    /\ {written.header[j] : j \in 1..Len(written.header)} = AllFields(rows)
    /\ \A i \in 1..Len(rows) :
          \A j \in 1..Len(written.header) :
              written.lines[i][j] =
                  (IF written.header[j] \in DOMAIN rows[i]
                   THEN CellText(rows[i][written.header[j]]) ELSE "")

\* C9: save() without a data argument returns with the file holding the
\* record (JSON) or the merged rows of the constructor and of add_row (TSV,
\* at least one row) the instance holds.
C9_SaveWithoutDataWritesHeld ==
    (/\ spc = "saved"
     /\ ~save_kwargs.has_data
     /\ (sidecar_class \in TsvTypes => in_rows # <<>>)) =>
        /\ save_outcome.kind = "returned"
        /\ IF sidecar_class \in JsonTypes
           THEN written.exists /\ written.content = JsonDump(self_data)
           ELSE /\ self_rows = [i \in 1..Len(SuppliedRecords) |->
                                   Merge(DEFAULTS(sidecar_class),
                                         SuppliedRecords[i])]
                /\ FileHoldsRows(self_rows)

\* The data a save call works on fails the validation of its class. (The
\* TSV classes that have no save of their own are looked at with the data
\* handed over explicitly.)
SavedDataInvalid ==
    IF sidecar_class \in JsonTypes
    THEN json_validate(sidecar_class, self_data).raised
    ELSE IF save_kwargs.has_data
    THEN ~tsv_validate(sidecar_class, save_kwargs.data).ok
    ELSE /\ sidecar_class = "channels"
         /\ ~tsv_validate(sidecar_class, ListData(self_rows, <<>>)).ok

\* C10: save(validate=True) on data that fails validation does not raise,
\* writes the file and returns its path, for every class.
C10_FailedValidationOnlyLogs ==
    (spc = "saved" /\ save_kwargs.validate /\ SavedDataInvalid) =>
        /\ save_outcome.kind = "returned"
        /\ save_outcome.path # <<>>
        /\ written.exists

\* ---- properties of validate and run_validation ----------------------------
\* The data a validate call looked at.
ValidatedData ==
    IF sidecar_class \in JsonTypes THEN DictData(self_data)
    ELSE IF validate_call.has_data THEN validate_call.data
    ELSE ListData(self_rows, <<>>)

\* The fields validate observes.
ObservedFields ==
    IF sidecar_class \in JsonTypes THEN DOMAIN self_data
    ELSE AllFields(ValidatedData.rows)

\* The data the instance holds passes the validate of its class.
InstanceValid ==
    IF sidecar_class \in JsonTypes
    THEN ~json_validate(sidecar_class, self_data).raised
    ELSE tsv_validate(sidecar_class, ListData(self_rows, <<>>)).ok

\* C11: run_validation(strict=True) returns True on valid data and raises
\* the validation-failed ValueError on invalid data; run_validation(
\* strict=False) returns False on invalid data and does not raise.
C11_RunValidationFollowsValidity ==
    (spc = "validated" /\ validate_call.op = "run_validation") =>
        /\ (validate_call.strict /\ InstanceValid) =>
              (validate_outcome.kind = "returned" /\ validate_outcome.ok)
        /\ (validate_call.strict /\ ~InstanceValid) =>
              (validate_outcome.kind = "raised"
               /\ validate_outcome.exc = "ValueError")
        /\ (~validate_call.strict /\ ~InstanceValid) =>
              (validate_outcome.kind = "returned" /\ ~validate_outcome.ok)

\* A validate call of a TSV class on a non-empty list of rows has returned.
TsvValidated ==
    /\ spc = "validated"
    /\ validate_call.op = "validate"
    /\ sidecar_class \in TsvTypes
    /\ ValidatedData.kind = "list"
    /\ ValidatedData.rows # <<>>

HasMsg(msgs, m) == \E i \in 1..Len(msgs) : msgs[i] = m
HasKind(msgs, kind) == \E i \in 1..Len(msgs) : msgs[i].kind = kind

\* C12: validate of a TSV class on a non-empty row list: when a required
\* field is in no row, ok is false and an error lists the missing fields;
\* ok is true exactly when there is no error.
C12_MissingRequiredFailsTsv ==
    TsvValidated =>
        LET missing == REQUIRED_FIELDS(sidecar_class) \ ObservedFields
        IN  /\ validate_outcome.kind = "returned"
            /\ missing # {} =>
                  /\ ~validate_outcome.ok
                  /\ HasMsg(validate_outcome.errors,
                            Msg("missing_required", missing, 0, ""))
            /\ missing = {} => ~HasKind(validate_outcome.errors,
                                        "missing_required")
            /\ validate_outcome.ok <=> validate_outcome.errors = <<>>

\* C12 witness: electrodes rows held by the instance, none with x, y, z.
C12_Witness ==
    /\ TsvValidated
    /\ sidecar_class = "electrodes"
    /\ ~validate_call.has_data
    /\ Len(self_rows) = 2
    /\ {"x", "y", "z"} \subseteq REQUIRED_FIELDS(sidecar_class) \ ObservedFields
    /\ ~validate_outcome.ok

\* A validate call of any class has returned a result on data it could read:
\* a record for the JSON classes, a non-empty list of rows for the TSV ones.
ValidateReturned ==
    /\ spc = "validated"
    /\ validate_call.op = "validate"
    /\ validate_outcome.kind = "returned"
    /\ sidecar_class \in TsvTypes =>
          (ValidatedData.kind = "list" /\ ValidatedData.rows # <<>>)

\* C13: for every sidecar class, a recommended field that is absent gives a
\* warning listing the missing recommended fields, and never an error.
C13_MissingRecommendedWarns ==
    ValidateReturned =>
        LET missing == RECOMMENDED_FIELDS(sidecar_class) \ ObservedFields
        IN  missing # {} =>
              /\ HasMsg(validate_outcome.warnings,
                        Msg("missing_recommended", missing, 0, ""))
              /\ ~HasKind(validate_outcome.errors, "missing_recommended")

\* The observed fields that are neither required, recommended nor optional.
ObservedExtras ==
    ObservedFields \ (REQUIRED_FIELDS(sidecar_class)
                      \cup RECOMMENDED_FIELDS(sidecar_class)
                      \cup OPTIONAL_FIELDS(sidecar_class))

NumericFailures == NumericMsgs(sidecar_class, ValidatedData.rows)

InMsgs(msgs, part) ==
    \A i \in 1..Len(part) : HasMsg(msgs, part[i])

\* No required field is missing from the rows validate looked at.
NothingElseWrong ==
    REQUIRED_FIELDS(sidecar_class) \subseteq ObservedFields

\* C15: for channels and events, a numeric field that does not parse as a
\* number gives a warning only: it is not among the errors, and ok stays
\* true when nothing else is wrong.
C15_NumericFailureOnlyWarns ==
    (ValidateReturned /\ sidecar_class \in {"channels", "events"}
     /\ NumericFailures # <<>>) =>
        /\ InMsgs(validate_outcome.warnings, NumericFailures)
        /\ ~HasKind(validate_outcome.errors, "not_numeric")
        /\ NothingElseWrong => validate_outcome.ok

\* C16: for electrodes, a value of x, y, z, size or impedance that does not
\* parse as a number is an error, and ok is false.
C16_ElectrodesNumericFailureIsError ==
    (ValidateReturned /\ sidecar_class = "electrodes"
     /\ NumericFailures # <<>>) =>
        /\ InMsgs(validate_outcome.errors, NumericFailures)
        /\ ~validate_outcome.ok

\* C16 witness: electrodes rows complete but for a size that is no number.
C16_Witness ==
    /\ ValidateReturned
    /\ sidecar_class = "electrodes"
    /\ NothingElseWrong
    /\ \E i \in 1..Len(NumericFailures) : NumericFailures[i].field = "size"
    /\ ~validate_outcome.ok

\* A validate call of a JSON class has finished, by return or by raise.
JsonValidated ==
    /\ spc = "validated"
    /\ validate_call.op = "validate"
    /\ sidecar_class \in JsonTypes

\* validate raised ValueError for missing required fields, field among them.
FailedNaming(field) ==
    /\ validate_outcome.kind = "raised"
    /\ validate_outcome.exc = "ValueError"
    /\ \E i \in 1..Len(validate_outcome.errors) :
          /\ validate_outcome.errors[i].kind = "missing_required"
          /\ field \in validate_outcome.errors[i].fields

\* C17: CoordSystemSidecar({"iEEGCoordinateSystem": "Other"}), built with no
\* description, fails validate() with the missing-required error naming
\* iEEGCoordinateSystemDescription.
C17_OtherWithoutDescriptionFails ==
    (JsonValidated /\ sidecar_class = "coordsystem"
     /\ in_fields = [iEEGCoordinateSystem |-> PyStr("Other")]) =>
        FailedNaming("iEEGCoordinateSystemDescription")

LacksRequired ==
    (REQUIRED_FIELDS(sidecar_class) \ DOMAIN self_data)
    \cup ConditionalRequired(sidecar_class, self_data)

\* C19: for the JSON classes a schema violation raises before the
\* required / recommended / extra pass and before the conditional rules: the
\* failure reports the schema errors only, also when a required field is
\* missing as well, and nothing is warned.
C19_SchemaFailureFirst ==
    (JsonValidated /\ SchemaErrors(sidecar_class, self_data) # {}) =>
        /\ validate_outcome.kind = "raised"
        /\ validate_outcome.exc = "ValueError"
        /\ validate_outcome.errors =
              <<Msg("schema", SchemaErrors(sidecar_class, self_data), 0, "")>>
        /\ validate_outcome.warnings = <<>>
        /\ validate_outcome.infos = <<>>

\* C19 witness: a record that breaks the schema and lacks a required field.
C19_Witness ==
    /\ JsonValidated
    /\ SchemaErrors(sidecar_class, self_data) # {}
    /\ LacksRequired # {}
    /\ validate_outcome.kind = "raised"
    /\ HasKind(validate_outcome.errors, "schema")

\* The rows a save call of a TSV class was asked to write.
SavedRows ==
    IF save_kwargs.has_data THEN save_kwargs.data.rows ELSE self_rows

\* C20: for every TSV class, a save with an empty row sequence fails with a
\* raised error and writes no file, so no header-only file appears.
C20_EmptyRowsNeverWritten ==
    (spc = "saved" /\ sidecar_class \in TsvTypes /\ SavedRows = <<>>) =>
        /\ save_outcome.kind = "raised"
        /\ ~written.exists

\* A JSON sidecar built with an empty supplied mapping has been validated.
DefaultsValidated == JsonValidated /\ DOMAIN in_fields = {}

\* C29: for every JSON class, a sidecar built with an empty supplied mapping
\* holds exactly the class's default table and passes validate(): the
\* defaults contain every required field and break no rule of the schema.
C29_DefaultsPassValidate ==
    DefaultsValidated =>
        /\ self_data = DEFAULTS(sidecar_class)
        /\ REQUIRED_FIELDS(sidecar_class) \subseteq DOMAIN self_data
        /\ SchemaErrors(sidecar_class, self_data) = {}
        /\ validate_outcome.kind = "returned"
        /\ validate_outcome.ok

\* ---- properties of the written TSV file -----------------------------------
\* The column names of the TSV classes in alphabetical order.
AlphabeticalColumns ==
    <<"age", "description", "duration", "ground", "group", "handedness",
      "hemisphere", "high_cutoff", "low_cutoff", "manufacturer", "material",
      "name", "notch", "onset", "output_dir", "participant_id", "population",
      "reference", "sampling_frequency", "sex", "size", "species",
      "trial_type", "type", "units", "x", "y", "z">>

\* The column order a TSV class declares; only ChannelsSidecar declares one.
DeclaredOrder(c) == IF c = "channels" THEN COLUMN_ORDER ELSE <<>>

\* The header the rows call for: the declared columns that occur, in the
\* declared order, then every other column that occurs, alphabetically.
CalledForHeader(c, rows) ==
    LET all_cols == AllFields(rows)
        declared == {DeclaredOrder(c)[j] : j \in 1..Len(DeclaredOrder(c))}
        Known(k) == k \in all_cols
        Other(k) == k \in all_cols \ declared
    IN  SelectSeq(DeclaredOrder(c), Known) \o SelectSeq(AlphabeticalColumns, Other)

\* A save of a TSV class that handed a non-empty list of rows to the writer.
RowsHandedToWriter ==
    /\ spc = "saved"
    /\ sidecar_class \in TsvTypes
    /\ save_kwargs.has_data \/ sidecar_class = "channels"
    /\ SavedRows # <<>>

\* C21: for every TSV class the written header is the union of the keys of
\* all rows, the declared columns first in declared order and the others
\* after them alphabetically, followed by one line per row; no write fails
\* and no column is dropped.
C21_HeaderIsOrderedUnionOfKeys ==
    RowsHandedToWriter =>
        /\ save_outcome.kind = "returned"
        /\ written.exists
        /\ written.header = CalledForHeader(sidecar_class, SavedRows)
        /\ Len(written.lines) = Len(SavedRows)

\* ---- properties of add_row -------------------------------------------------
\* C22: for every TSV class, add_row(row) appends exactly one row, equal to
\* the defaults merged with row (row's value where row has the key, else the
\* default), at the end of the row sequence, and leaves every row stored
\* before, and their order, unchanged.
C22_AddRowAppendsOneMergedRow ==
    [][Len(added_rows') = Len(added_rows) + 1 =>
          LET row == added_rows'[Len(added_rows')]
              defaults == DEFAULTS(sidecar_class)
              last == self_rows'[Len(self_rows')]
          IN  /\ sidecar_class \in TsvTypes
              /\ Len(self_rows') = Len(self_rows) + 1
              /\ SubSeq(self_rows', 1, Len(self_rows)) = self_rows
              /\ DOMAIN last = DOMAIN defaults \cup DOMAIN row
              /\ \A k \in DOMAIN last :
                    last[k] = IF k \in DOMAIN row THEN row[k] ELSE defaults[k]]_vars

\* C22 witness: a row was added behind a different row stored before.
C22_Witness ==
    /\ sidecar_class \in TsvTypes
    /\ Len(added_rows) >= 1
    /\ Len(self_rows) = 2
    /\ self_rows[1] # self_rows[2]

C24_ClassAttributesNeverChange ==
    sidecar_class \in SidecarTypes =>
        /\ class_attrs.REQUIRED_FIELDS = REQUIRED_FIELDS(sidecar_class)
        /\ class_attrs.RECOMMENDED_FIELDS = RECOMMENDED_FIELDS(sidecar_class)
        /\ class_attrs.OPTIONAL_FIELDS = OPTIONAL_FIELDS(sidecar_class)
        /\ class_attrs.DEFAULTS = DEFAULTS(sidecar_class)
        /\ class_attrs.COLUMN_ORDER = DeclaredOrder(sidecar_class)
        /\ class_attrs.filename = ClassFilename(sidecar_class)

\* C24 witness: an instance built with a file name override, given a further
\* row and saved under the overriding name, the class name still in place.
C24_Witness ==
    /\ spc = "saved"
    /\ "filename" \in DOMAIN in_kwargs
    /\ Len(added_rows) >= 1
    /\ save_outcome.kind = "returned"
    /\ save_outcome.path.name = in_kwargs["filename"]
    /\ self_filename # ClassFilename(sidecar_class)
    /\ class_attrs.filename = ClassFilename(sidecar_class)

====
